---- MODULE Spec2Model ----
(***************************************************************************)
(* Escalation & Session Engine of betterclaw: the cron scheduler           *)
(* (src/lib/crons.js), the gateway timers that drive it                    *)
(* (src/lib/custom-tools.js) and the sub-agent spawner                     *)
(* (src/lib/model-cmd.js, spawnAgent / spawnAgents).                       *)
(*                                                                         *)
(* A JavaScript string is a tuple of one-character strings, so that split, *)
(* startsWith, parseInt and Number are computed on the text itself.        *)
(***************************************************************************)
EXTENDS Integers, Sequences, FiniteSets, TLC

\* ------------------------------------------------------------------------
\* Bounds of the model
\* ------------------------------------------------------------------------

\* largest N of the `*/N * * * *` expressions drawn by the parser check
MaxStep == 59

\* minutes the wall clock can advance past its start
MaxClock == 1

\* jobs ever created (ids 1..MaxJobs)
MaxJobs == 2

\* runCronTick invocations that can be in flight at once
MaxTicks == 2

\* runCronTick invocations in one behaviour
MaxRuns == 2

\* createCron / updateCron / deleteCron calls in one behaviour
MaxCalls == 3

\* tasks of one spawnAgents batch
MaxTasks == 3

\* length of the lists written to crons.json in the file model
MaxFileLen == 2

\* chat sessions
MaxSessions == 2

\* POST /api/chat requests the panel handles at once
MaxRequests == 2

\* lines the CLI's readline has handed to the line handler at once
MaxLines == 2

\* gateway ticks of one kind in flight at once
MaxInFlight == 2

\* tool calls one completion of the browser agent requests
MaxToolCalls == 2

\* Telegram chats that write to the bot
MaxChats == 3

\* updates Telegram stores for the bot
MaxUpdates == 3

\* file names in the custom-tools directory
MaxToolFiles == 2

\* node ids of the graph, calls that build it, and the hops of a traverse
MaxNodes == 3

MaxGraphOps == 3

MaxHops == 2

\* messages appended to the CLI's session
MaxMessages == 10

\* the trailing window compaction keeps
KeepRecent == 3

\* candidate events Tier 1 of the heartbeat returns for one tick
MaxEvents == 3

\* characters of a result text or an error message of a cron job
LongText == 250

\* result.slice(0, 200)
PreviewMax == 200

\* characters of the prefix `Error: `
ErrorPrefixLen == 7

\* ------------------------------------------------------------------------
\* JavaScript text and number primitives used by crons.js
\* ------------------------------------------------------------------------

DigitChars == <<"0", "1", "2", "3", "4", "5", "6", "7", "8", "9">>

IsDigit(c) == \E d \in 1..10 : DigitChars[d] = c

DigitVal(c) == (CHOOSE d \in 1..10 : DigitChars[d] = c) - 1

IsSpace(c) == c = " "

\* a JavaScript number that may be NaN
Num(v) == [nan |-> FALSE, val |-> v]

NaN == [nan |-> TRUE, val |-> 0]

RECURSIVE DropLeadingSpace(_)
DropLeadingSpace(s) ==
  IF s # <<>> /\ IsSpace(Head(s)) THEN DropLeadingSpace(Tail(s)) ELSE s

RECURSIVE DropTrailingSpace(_)
DropTrailingSpace(s) ==
  IF s # <<>> /\ IsSpace(s[Len(s)])
  THEN DropTrailingSpace(SubSeq(s, 1, Len(s) - 1))
  ELSE s

\* String.prototype.trim
Trim(s) == DropTrailingSpace(DropLeadingSpace(s))

\* String.prototype.startsWith
StartsWith(s, p) == Len(s) >= Len(p) /\ SubSeq(s, 1, Len(p)) = p

\* String.prototype.slice(k) for 0 <= k
SliceFrom(s, k) == IF k >= Len(s) THEN <<>> ELSE SubSeq(s, k + 1, Len(s))

\* String.prototype.includes for a single character
Includes(s, c) == \E i \in 1..Len(s) : s[i] = c

\* String.prototype.split(c) for a single-character separator: the pieces
\* between the separators, empty pieces kept ("".split(",") is [""])
RECURSIVE SplitAcc(_, _, _)
SplitAcc(s, c, cur) ==
  IF s = <<>> THEN <<cur>>
  ELSE IF Head(s) = c THEN <<cur>> \o SplitAcc(Tail(s), c, <<>>)
  ELSE SplitAcc(Tail(s), c, Append(cur, Head(s)))

Split(s, c) == SplitAcc(s, c, <<>>)

\* String.prototype.split(/\s+/): runs of white space separate; a leading or
\* trailing run leaves an empty piece, and "" splits into [""]
RECURSIVE SplitWsAcc(_, _, _)
SplitWsAcc(s, cur, inRun) ==
  IF s = <<>> THEN <<cur>>
  ELSE IF IsSpace(Head(s))
       THEN IF inRun THEN SplitWsAcc(Tail(s), cur, TRUE)
            ELSE <<cur>> \o SplitWsAcc(Tail(s), <<>>, TRUE)
  ELSE SplitWsAcc(Tail(s), Append(cur, Head(s)), FALSE)

SplitWs(s) == SplitWsAcc(s, <<>>, FALSE)

\* Array.prototype.join
RECURSIVE Join(_, _)
Join(parts, sep) ==
  IF parts = <<>> THEN <<>>
  ELSE IF Len(parts) = 1 THEN parts[1]
  ELSE parts[1] \o sep \o Join(Tail(parts), sep)

\* the value of the longest prefix of digits of s, most significant first
RECURSIVE DigitPrefixLen(_)
DigitPrefixLen(s) ==
  IF s # <<>> /\ IsDigit(Head(s)) THEN 1 + DigitPrefixLen(Tail(s)) ELSE 0

RECURSIVE DigitsValue(_, _)
DigitsValue(s, acc) ==
  IF s = <<>> THEN acc ELSE DigitsValue(Tail(s), 10 * acc + DigitVal(Head(s)))

\* parseInt(s): leading white space skipped, an optional sign, then the
\* longest run of decimal digits; NaN when there is none.  (The texts of this
\* model hold no "0x" prefix, the one case parseInt reads in another radix.)
DigitPrefixValue(s, n) ==
  IF n = 0 THEN NaN ELSE Num(DigitsValue(SubSeq(s, 1, n), 0))

ParseIntUnsigned(s) == DigitPrefixValue(s, DigitPrefixLen(s))

\* -x of a number that may be NaN
Negated(u) == IF u.nan THEN NaN ELSE Num(0 - u.val)

\* a numeral with its optional sign: "-" negates what `unsigned` reads
Signed(s, unsigned) ==
  IF s # <<>> /\ Head(s) = "-" THEN Negated(unsigned) ELSE unsigned

\* s without the one sign character a numeral may start with
Unsign(s) == IF s # <<>> /\ Head(s) \in {"-", "+"} THEN Tail(s) ELSE s

ParseIntTrimmed(s) == Signed(s, ParseIntUnsigned(Unsign(s)))

ParseInt(s) == ParseIntTrimmed(DropLeadingSpace(s))

\* Number(s): the whole trimmed text must be a numeral; "" is 0.  (The texts
\* Number is applied to in this model are pieces of a split on "-" and hold
\* no ".", exponent, "0x" or "Infinity".)
NumberUnsigned(s) ==
  IF s # <<>> /\ DigitPrefixLen(s) = Len(s) THEN Num(DigitsValue(s, 0)) ELSE NaN

JsNumberTrimmed(s) ==
  IF s = <<>> THEN Num(0) ELSE Signed(s, NumberUnsigned(Unsign(s)))

JsNumber(s) == JsNumberTrimmed(Trim(s))

\* String(n) for an integer or NaN
RECURSIVE NatToText(_)
NatToText(n) ==
  IF n < 10 THEN <<DigitChars[n + 1]>>
  ELSE NatToText(n \div 10) \o <<DigitChars[(n % 10) + 1]>>

NumToText(x) ==
  IF x.nan THEN <<"N", "a", "N">>
  ELSE IF x.val < 0 THEN <<"-">> \o NatToText(0 - x.val)
  ELSE NatToText(x.val)

\* String.prototype.padStart(2, "0")
PadStart2(s) == IF Len(s) >= 2 THEN s ELSE IF Len(s) = 1 THEN <<"0">> \o s ELSE <<"0", "0">>

\* ------------------------------------------------------------------------
\* Cron expression parser (crons.js: 5 fields, min hour dom month dow)
\* ------------------------------------------------------------------------

MinuteMin == 0

MinuteMax == 59

HourMin == 0

HourMax == 23

DomMin == 1

DomMax == 31

MonthMin == 1

MonthMax == 12

DowMin == 0

DowMax == 6

Star == <<"*">>

StarSlash == <<"*", "/">>

\* what parseField returns or that it threw: "any" is the null of the code
FieldAny == [kind |-> "any", vals |-> {}]

FieldSet(v) == [kind |-> "set", vals |-> v]

FieldThrew == [kind |-> "threw", vals |-> {}]

\* for (let i = min; i <= max; i += step) values.add(i)
RECURSIVE StepValues(_, _, _)
StepValues(i, max, step) ==
  IF i <= max THEN {i} \cup StepValues(i + step, max, step) ELSE {}

\* for (let i = a; i <= b; i++) values.add(i)
RECURSIVE RangeValues(_, _)
RangeValues(i, b) == IF i <= b THEN {i} \cup RangeValues(i + 1, b) ELSE {}

\* one comma-separated part of a field: the values it adds, or that it threw
StepOfPartMutant(part) == Num(1)

StepOfPart(part) == ParseInt(SliceFrom(part, 2))

\* */N: if (isNaN(step) || step < 1) throw; otherwise every step-th value
StepPart(step, min, max) ==
  IF step.nan \/ step.val < 1 THEN FieldThrew
  ELSE FieldSet(StepValues(min, max, step.val))

\* N-M: if (isNaN(a) || isNaN(b)) throw; otherwise a..b
RangePart(a, b) ==
  IF a.nan \/ b.nan THEN FieldThrew ELSE FieldSet(RangeValues(a.val, b.val))

\* const [a, b] = part.split('-').map(Number)
RangeOfPieces(ab) == RangePart(JsNumber(ab[1]), JsNumber(ab[2]))

\* N: if (isNaN(n)) throw; otherwise the one value
LiteralPart(n) == IF n.nan THEN FieldThrew ELSE FieldSet({n.val})

ParsePart(part, min, max) ==
  IF StartsWith(part, StarSlash) THEN StepPart(StepOfPart(part), min, max)
  ELSE IF Includes(part, "-") THEN RangeOfPieces(Split(part, "-"))
  ELSE LiteralPart(ParseInt(part))

RECURSIVE ParseParts(_, _, _, _)
\* the parts after the one whose result is r
ParseRest(r, rest, min, max, values) ==
  IF r.kind = "threw" THEN FieldThrew
  ELSE ParseParts(rest, min, max, values \cup r.vals)

ParseParts(parts, min, max, values) ==
  IF parts = <<>> THEN FieldSet(values)
  ELSE ParseRest(ParsePart(Head(parts), min, max), Tail(parts), min, max, values)

parseField(field, min, max) ==
  IF field = Star THEN FieldAny
  ELSE ParseParts(Split(field, ","), min, max, {})

\* what parseCronExpression returns, or that it threw
ParseThrew ==
  [ok |-> FALSE, minute |-> FieldThrew, hour |-> FieldThrew,
   dayOfMonth |-> FieldThrew, month |-> FieldThrew, dayOfWeek |-> FieldThrew]

\* the object parseCronExpression returns, unless a parseField threw
ParsedOf(mi, ho, dm, mo, dw) ==
  IF \E f \in {mi, ho, dm, mo, dw} : f.kind = "threw"
  THEN ParseThrew
  ELSE [ok |-> TRUE, minute |-> mi, hour |-> ho,
        dayOfMonth |-> dm, month |-> mo, dayOfWeek |-> dw]

ParseFields(parts) ==
  IF Len(parts) # 5 THEN ParseThrew
  ELSE ParsedOf(parseField(parts[1], MinuteMin, MinuteMax),
                parseField(parts[2], HourMin, HourMax),
                parseField(parts[3], DomMin, DomMax),
                parseField(parts[4], MonthMin, MonthMax),
                parseField(parts[5], DowMin, DowMax))

parseCronExpression(expr) == ParseFields(SplitWs(Trim(expr)))

\* a Date as matchesCron reads it: getMinutes, getHours, getDate, getMonth
\* (0-based), getDay
MkDate(mi, ho, dm, mo0, dw) ==
  [minutes |-> mi, hours |-> ho, date |-> dm, month0 |-> mo0, day |-> dw]

\* parsed.f && !parsed.f.has(v): the field is a set that lacks v
Misses(f, v) == f.kind = "set" /\ v \notin f.vals

matchesCronMutant(parsed, date) ==
  IF Misses(parsed.minute, date.minutes) THEN FALSE
  ELSE IF Misses(parsed.hour, date.hours) THEN FALSE
  ELSE IF Misses(parsed.month, date.month0 + 1) THEN FALSE
  ELSE IF parsed.dayOfMonth.kind = "set" /\ parsed.dayOfWeek.kind = "set"
       THEN date.date \in parsed.dayOfMonth.vals \/ date.day \in parsed.dayOfWeek.vals
  ELSE ~Misses(parsed.dayOfMonth, date.date) /\ ~Misses(parsed.dayOfWeek, date.day)

matchesCron(parsed, date) ==
  IF Misses(parsed.minute, date.minutes) THEN FALSE
  ELSE IF Misses(parsed.hour, date.hours) THEN FALSE
  ELSE IF Misses(parsed.dayOfMonth, date.date) THEN FALSE
  ELSE IF Misses(parsed.month, date.month0 + 1) THEN FALSE
  ELSE IF Misses(parsed.dayOfWeek, date.day) THEN FALSE
  ELSE TRUE

\* validateCron returns true or throws: TRUE iff it returns
validateCron(schedule) == parseCronExpression(schedule).ok

\* ------------------------------------------------------------------------
\* describeCron: the human-readable description of a schedule
\* ------------------------------------------------------------------------

dayNames ==
  <<<<"S", "u", "n">>, <<"M", "o", "n">>, <<"T", "u", "e">>, <<"W", "e", "d">>,
    <<"T", "h", "u">>, <<"F", "r", "i">>, <<"S", "a", "t">>>>

TxtAt == <<"a", "t", " ">>

TxtEvery == <<"e", "v", "e", "r", "y", " ">>

TxtMinutes == <<" ", "m", "i", "n", "u", "t", "e", "s">>

TxtHours == <<" ", "h", "o", "u", "r", "s">>

TxtOn == <<"o", "n", " ">>

TxtOnDay == <<"o", "n", " ", "d", "a", "y", " ">>

TxtOfTheMonth == <<" ", "o", "f", " ", "t", "h", "e", " ", "m", "o", "n", "t", "h">>

\* `at ${h12}:${String(m).padStart(2, '0')} ${ampm}`
\* h >= 12 ? 'PM' : 'AM'
AmPm(h) == IF ~h.nan /\ h.val >= 12 THEN <<"P", "M">> ELSE <<"A", "M">>

\* h === 0 ? 12 : h > 12 ? h - 12 : h
H12(h) ==
  IF ~h.nan /\ h.val = 0 THEN Num(12)
  ELSE IF ~h.nan /\ h.val > 12 THEN Num(h.val - 12)
  ELSE h

AtPieceOf(h, m) ==
  TxtAt \o NumToText(H12(h)) \o <<":">> \o PadStart2(NumToText(m)) \o <<" ">> \o AmPm(h)

AtPiece(hour, min) == AtPieceOf(ParseInt(hour), ParseInt(min))

\* dayNames[parseInt(d)] || d
DayNameAt(n, d) ==
  IF ~n.nan /\ n.val >= 0 /\ n.val < Len(dayNames) THEN dayNames[n.val + 1] ELSE d

DayName(d) == DayNameAt(ParseInt(d), d)

\* ds.map(d => dayNames[parseInt(d)] || d)
MapDayNames(ds) == [i \in 1..Len(ds) |-> DayName(ds[i])]

DayNamesOf(dow) == MapDayNames(Split(dow, ","))

\* pieces.join(' ') || schedule
JoinOrFallbackMutant(pieces, schedule) == Join(pieces, <<" ">>)

\* x || schedule for a text x: "" is falsy
OrSchedule(joined, schedule) == IF joined = <<>> THEN schedule ELSE joined

JoinOrFallback(pieces, schedule) == OrSchedule(Join(pieces, <<" ">>), schedule)

\* the piece for the time of day, if any
TimePieces(min, hour) ==
  IF min # Star /\ hour # Star THEN <<AtPiece(hour, min)>>
  ELSE IF StartsWith(min, StarSlash)
       THEN <<TxtEvery \o SliceFrom(min, 2) \o TxtMinutes>>
  ELSE IF StartsWith(hour, StarSlash)
       THEN <<TxtEvery \o SliceFrom(hour, 2) \o TxtHours>>
  ELSE <<>>

\* the piece for the days of the week, if any
DowPieces(dow) ==
  IF dow # Star THEN <<TxtOn \o Join(DayNamesOf(dow), <<",", " ">>)>> ELSE <<>>

\* the piece for the day of the month, if any
DomPieces(dom) ==
  IF dom # Star THEN <<TxtOnDay \o dom \o TxtOfTheMonth>> ELSE <<>>

DescribeParts(parts, schedule) ==
  IF Len(parts) # 5 THEN schedule
  ELSE JoinOrFallback(TimePieces(parts[1], parts[2]) \o DowPieces(parts[5])
                        \o DomPieces(parts[3]), schedule)

describeCron(schedule) == DescribeParts(SplitWs(Trim(schedule)), schedule)

\* ------------------------------------------------------------------------
\* State
\* ------------------------------------------------------------------------

VARIABLES
  \* parser check: one expression taken through parse, describe, re-parse, match
  pExpr, pStage, pParsed, pDesc, pReparsed, pDate, pMatch, pRematch,
  \* cron scheduler: crons.json, the wall clock, the runCronTick invocations
  disk, clock, nextId, tick, runs, calls,
  \* history of the scheduler: executions started, executions that threw,
  \* the last CRUD call and what it did, the ids deleteCron removed
  fireLog, failLog, lastCall, deleted,
  \* sub-agent spawner: the spawnAgent runs of one spawnAgents batch
  agents, batch, journal,
  \* crons.json as text: its content, the writeFile in progress, the list of
  \* the last save that completed, whether the last save failed, what the
  \* last loadCrons returned, and the createCron call in progress or ended
  crFile, crWrite, crPrior, crFailed, crLoaded, crCreate,
  \* chat front ends: the panel's activeSessions map and its POST /api/chat
  \* requests, the CLI's current session and its line handlers
  activeSessions, req, cliSession, line,
  \* gateway: the process, gatewayState's timers, the one-shot first ticks
  \* still pending, the ticks in flight, and whether a tick's error was caught
  \* and a tick has started since
  proc, gatewayState, pending, inFlight, tickErrors,
  \* the periods of the armed interval timers of runHeartbeatTick, oldest
  \* first; gatewayState.heartbeatTimer holds the newest
  hbIntervals,
  \* browser agent: one runBrowserTask
  bt,
  \* Telegram bot: the configured allowedChatIds, the message being handled,
  \* the chats in sessionMap, the chats sendStream was called for, and the
  \* chats that were answered `Not authorized.`
  tgBot, tgMsg, sessionMap, streamed, refused,
  \* its poll loop, the highest update_id Telegram has stored, and the
  \* update ids the loop has taken up, in order
  tgPoll, arrived, taken,
  \* heartbeat: one runHeartbeat call and its caller
  hb,
  \* the CLI's session: its history and the compact command in progress
  sess,
  \* custom tools: the files of the custom-tools directory, the customTools
  \* registry, the loadCustomTools calls in flight by caller, the
  \* createCustomTool call, and the files whose tool a createCustomTool
  \* returned and no deleteCustomTool has removed since
  toolsDir, customTools, loads, cr, created,
  \* one MiniGraph, the operations applied to it (their number and the last
  \* one), and what was last asked of it: the graph imported from its
  \* export, or a traverse
  graph, graphOps, roundTrip, trav,
  \* one sendMessage of the Telegram channel: the text (its length and the
  \* indexes of its newlines), where `remaining` starts in it, and the chunks
  \* pushed so far as index ranges of the text
  ck

parseVars == <<pExpr, pStage, pParsed, pDesc, pReparsed, pDate, pMatch, pRematch>>

cronVars ==
  <<disk, clock, nextId, tick, runs, calls, fireLog, failLog, lastCall, deleted>>

spawnVars == <<agents, batch, journal>>

fileVars == <<crFile, crWrite, crPrior, crFailed, crLoaded, crCreate>>

chatVars == <<activeSessions, req, cliSession, line>>

\* the components added to the parser, the scheduler and the spawner
gateVars == <<proc, gatewayState, pending, inFlight, tickErrors, hbIntervals>>

browserVars == <<bt>>

telegramVars == <<tgBot, tgMsg, sessionMap, streamed, refused, tgPoll, arrived, taken>>

\* the components added after the chat front ends, the gateway and the browser
heartbeatVars == <<hb>>

sessionVars == <<sess>>

toolVars == <<toolsDir, customTools, loads, cr, created>>

graphVars == <<graph, graphOps, roundTrip, trav>>

chunkVars == <<ck>>

lateVars == <<toolVars, graphVars, chunkVars>>

newVars == <<telegramVars, heartbeatVars, sessionVars, lateVars>>

moreVars == <<fileVars, chatVars, gateVars, browserVars, newVars>>

vars == <<parseVars, cronVars, spawnVars, moreVars>>

\* what an action of one component leaves alone
notParse == <<cronVars, spawnVars, moreVars>>

notCron == <<parseVars, spawnVars, moreVars>>

notSpawn == <<parseVars, cronVars, moreVars>>

baseVars == <<parseVars, cronVars, spawnVars, newVars>>

oldVars ==
  <<parseVars, cronVars, spawnVars, fileVars, chatVars, gateVars, browserVars>>

notTelegram == <<oldVars, heartbeatVars, sessionVars, lateVars>>

notHeartbeat == <<oldVars, telegramVars, sessionVars, lateVars>>

notSession == <<oldVars, telegramVars, heartbeatVars, lateVars>>

coreVars == <<oldVars, telegramVars, heartbeatVars, sessionVars>>

notTool == <<coreVars, graphVars, chunkVars>>

notGraph == <<coreVars, toolVars, chunkVars>>

notChunk == <<coreVars, toolVars, graphVars>>

notFile == <<baseVars, chatVars, gateVars, browserVars>>

notChat == <<baseVars, fileVars, gateVars, browserVars>>

notGate == <<baseVars, fileVars, chatVars, browserVars>>

notBrowser == <<baseVars, fileVars, chatVars, gateVars>>

\* ------------------------------------------------------------------------
\* Parser check: inputs
\* ------------------------------------------------------------------------

Sp == <<" ">>

ExprOf(fields) == Join(fields, Sp)

\* `*/N * * * *`
StepExpr(n) == ExprOf(<<StarSlash \o NatToText(n), Star, Star, Star, Star>>)

StepExprs == {StepExpr(n) : n \in 1..MaxStep}

MinuteTexts == {Star, <<"3", "0">>, <<"*", "/", "1", "5">>}

HourTexts == {Star, <<"9">>, <<"*", "/", "1", "2">>}

DomTexts == {Star, <<"1", ",", "1", "5">>}

MonthTexts == {Star, <<"6">>}

DowTexts == {Star, <<"1", "-", "5">>, <<"0", ",", "6">>}

MixedExprs ==
  {ExprOf(<<mi, ho, dm, mo, dw>>) :
     mi \in MinuteTexts, ho \in HourTexts, dm \in DomTexts,
     mo \in MonthTexts, dw \in DowTexts}

\* "a b c d e"
TxtLetters == <<"a", " ", "b", " ", "c", " ", "d", " ", "e">>

\* "99 * * * *"
TxtMinute99 == <<"9", "9", " ", "*", " ", "*", " ", "*", " ", "*">>

\* "* * * * *"
TxtEveryMinute == <<"*", " ", "*", " ", "*", " ", "*", " ", "*">>

\* ""
TxtEmpty == <<>>

OddExprs ==
  { TxtLetters, TxtMinute99, TxtEmpty,
    <<"*", " ", "*", " ", "*", " ", "*">>,
    <<"*", " ", "*", " ", "*", " ", "*", " ", "*", " ", "*">>,
    <<" ", "5", " ", " ", "*", " ", "*", " ", "*", " ", "*", " ">>,
    <<"*", "/", "0", " ", "*", " ", "*", " ", "*", " ", "*">>,
    <<"5", "-", "1", " ", "*", " ", "*", " ", "*", " ", "*">>,
    <<"1", ",", ",", "2", " ", "*", " ", "*", " ", "*", " ", "*">>,
    <<"*", " ", "2", "5", " ", "3", "2", " ", "1", "3", " ", "7">>,
    <<"0", " ", "1", "3", " ", "*", " ", "*", " ", "*">>,
    <<"1", "5", " ", "0", " ", "*", " ", "*", " ", "*">> }

ExprPool == StepExprs \cup MixedExprs \cup OddExprs

DatePool ==
  {MkDate(mi, ho, dm, mo0, dw) :
     mi \in MinuteMin..MinuteMax, ho \in {0, 9}, dm \in {1, 15},
     mo0 \in {0, 5}, dw \in {1, 6}}

NoDate == MkDate(0, 0, 1, 0, 0)

\* parseCronExpression(expr)
DoParse ==
  /\ pStage = "input"
  /\ pParsed' = parseCronExpression(pExpr)
  /\ pStage' = "parsed"
  /\ UNCHANGED <<pExpr, pDesc, pReparsed, pDate, pMatch, pRematch>>
  /\ UNCHANGED notParse

\* describeCron(expr)
DoDescribe ==
  /\ pStage = "parsed"
  /\ pDesc' = describeCron(pExpr)
  /\ pStage' = "described"
  /\ UNCHANGED <<pExpr, pParsed, pReparsed, pDate, pMatch, pRematch>>
  /\ UNCHANGED notParse

\* parseCronExpression(describeCron(expr))
DoReparse ==
  /\ pStage = "described"
  /\ pReparsed' = parseCronExpression(pDesc)
  /\ pStage' = "reparsed"
  /\ UNCHANGED <<pExpr, pParsed, pDesc, pDate, pMatch, pRematch>>
  /\ UNCHANGED notParse

\* matchesCron(parsed, date), of the expression and of its re-parsed
\* description when that parsed
DoMatch ==
  /\ pStage = "reparsed"
  /\ pParsed.ok
  /\ \E d \in DatePool :
       /\ pDate' = d
       /\ pMatch' = matchesCron(pParsed, d)
       /\ pRematch' = IF pReparsed.ok THEN matchesCron(pReparsed, d) ELSE FALSE
  /\ pStage' = "matched"
  /\ UNCHANGED <<pExpr, pParsed, pDesc, pReparsed>>
  /\ UNCHANGED notParse

ParseNext == DoParse \/ DoDescribe \/ DoReparse \/ DoMatch

\* ------------------------------------------------------------------------
\* Cron scheduler: storage, CRUD operations
\* ------------------------------------------------------------------------

\* lastRun: null, or the instant (a minute of the wall clock) it was set to
NoRun == [ran |-> FALSE, at |-> 0]

RanAt(m) == [ran |-> TRUE, at |-> m]

\* the schedule texts the callers of this model pass to createCron and updateCron
SchedInputs == {TxtEveryMinute, TxtLetters, TxtMinute99, TxtEmpty}

JobIds == 1..MaxJobs

\* lastResult: null, or a text of which the model keeps the length
NoResult == [set |-> FALSE, len |-> 0]

ResultOf(len) == [set |-> TRUE, len |-> len]

\* the lengths of the texts executeCronJob returns and of the messages of the
\* errors it throws
TextLens == {LongText}

\* the job createCron builds: lastRun null, runCount 0, lastResult null
NewJob(id, schedule, enabled) ==
  [id |-> id, schedule |-> schedule, enabled |-> enabled,
   lastRun |-> NoRun, runCount |-> 0, lastResult |-> NoResult]

\* crons.findIndex(c => c.id === id), 0 for -1
FindIndex(crons, id) ==
  IF \E i \in 1..Len(crons) : crons[i].id = id
  THEN CHOOSE i \in 1..Len(crons) :
         /\ crons[i].id = id
         /\ \A k \in 1..(i - 1) : crons[k].id # id
  ELSE 0

\* crons.splice(idx, 1)
Splice(crons, idx) ==
  [k \in 1..(Len(crons) - 1) |-> IF k < idx THEN crons[k] ELSE crons[k + 1]]

\* the last CRUD call: whether it carried a schedule and whether validateCron
\* accepts that schedule, how the call ended, whether crons.json changed
NoCall == [op |-> "none", schedGiven |-> FALSE, valid |-> FALSE,
           outcome |-> "none", changed |-> FALSE, others |-> FALSE]

Call(op, given, valid, outcome, changed) ==
  [op |-> op, schedGiven |-> given, valid |-> given /\ valid,
   outcome |-> outcome, changed |-> changed, others |-> FALSE]

\* an updateCron call, with whether its updates carried keys outside the
\* allowed list
UpdateCall(given, valid, outcome, changed, others) ==
  [Call("update", given, valid, outcome, changed) EXCEPT !.others = others]

\* createCron({name, schedule, prompt, enabled}): validateCron throws before
\* the list is loaded; otherwise the new job is pushed and the list saved.
\* `valid` is whether validateCron(schedule) returns.
CreateCronChecked(schedule, enabled, valid) ==
  /\ calls < MaxCalls
  /\ calls' = calls + 1
  /\ IF ~valid
     THEN /\ lastCall' = Call("create", TRUE, valid, "threw", FALSE)
          /\ UNCHANGED <<disk, nextId>>
     ELSE /\ nextId <= MaxJobs
          /\ disk' = Append(disk, NewJob(nextId, schedule, enabled))
          /\ nextId' = nextId + 1
          /\ lastCall' = Call("create", TRUE, valid, "ok", TRUE)
  /\ UNCHANGED <<clock, tick, runs, fireLog, failLog, deleted>>
  /\ UNCHANGED notCron

CreateCron(schedule, enabled) ==
  CreateCronChecked(schedule, enabled, validateCron(schedule))

\* if (updates.schedule): a given schedule is validated only when it is truthy,
\* and "" is not
ScheduleChecked(given, schedule) == given /\ schedule # TxtEmpty

\* what an updates object carries under keys outside the allowed list when it
\* carries them: id, lastRun, runCount, lastResult
OtherKeys ==
  [id |-> 0, lastRun |-> RanAt(0), runCount |-> MaxRuns + 1, lastResult |-> ResultOf(1)]

\* every key of updates copied to the job
ApplyUpdatesMutant(job, schedGiven, schedule, enabledGiven, enabled, others) ==
  [job EXCEPT !.schedule = IF schedGiven THEN schedule ELSE @,
              !.enabled = IF enabledGiven THEN enabled ELSE @,
              !.id = IF others THEN OtherKeys.id ELSE @,
              !.lastRun = IF others THEN OtherKeys.lastRun ELSE @,
              !.runCount = IF others THEN OtherKeys.runCount ELSE @,
              !.lastResult = IF others THEN OtherKeys.lastResult ELSE @]

\* for (const key of allowed) if (updates[key] !== undefined) crons[idx][key] = updates[key];
\* `others` is whether updates carries keys outside the allowed list
ApplyUpdates(job, schedGiven, schedule, enabledGiven, enabled, others) ==
  [job EXCEPT !.schedule = IF schedGiven THEN schedule ELSE @,
              !.enabled = IF enabledGiven THEN enabled ELSE @]

\* updateCron(id, updates), updates carrying schedule, enabled, both or neither;
\* idx is findIndex's answer and `valid` whether validateCron(schedule) returns
UpdateCronAt(idx, schedGiven, schedule, enabledGiven, enabled, others, valid) ==
  /\ calls < MaxCalls
  /\ calls' = calls + 1
  /\ IF idx = 0
     THEN /\ lastCall' = UpdateCall(schedGiven, valid, "null", FALSE, others)
          /\ UNCHANGED disk
     ELSE IF ScheduleChecked(schedGiven, schedule) /\ ~valid
     THEN /\ lastCall' = UpdateCall(schedGiven, valid, "threw", FALSE, others)
          /\ UNCHANGED disk
     ELSE /\ disk' = [disk EXCEPT ![idx] =
                        ApplyUpdates(@, schedGiven, schedule, enabledGiven, enabled, others)]
          /\ lastCall' = UpdateCall(schedGiven, valid, "ok", disk' # disk, others)
  /\ UNCHANGED <<clock, nextId, tick, runs, fireLog, failLog, deleted>>
  /\ UNCHANGED notCron

UpdateCronTo(id, schedGiven, schedule, enabledGiven, enabled, others) ==
  UpdateCronAt(FindIndex(disk, id), schedGiven, schedule, enabledGiven, enabled, others,
               validateCron(schedule))

UpdateCron(id) ==
  \E schedGiven \in BOOLEAN, enabledGiven \in BOOLEAN, enabled \in BOOLEAN, others \in BOOLEAN :
    \E schedule \in (IF schedGiven THEN SchedInputs ELSE {TxtEmpty}) :
      /\ enabledGiven \/ ~enabled
      /\ schedGiven \/ enabledGiven \/ others
      /\ others => ~schedGiven
      /\ UpdateCronTo(id, schedGiven, schedule, enabledGiven, enabled, others)

\* enableCron(id) is updateCron(id, {enabled: true})
EnableCron(id) == UpdateCronTo(id, FALSE, TxtEmpty, TRUE, TRUE, FALSE)

\* disableCron(id) is updateCron(id, {enabled: false})
DisableCron(id) == UpdateCronTo(id, FALSE, TxtEmpty, TRUE, FALSE, FALSE)

\* deleteCron(id); idx is findIndex's answer
DeleteCronAt(idx) ==
  /\ calls < MaxCalls
  /\ calls' = calls + 1
  /\ IF idx = 0
     THEN /\ lastCall' = Call("delete", FALSE, FALSE, "false", FALSE)
          /\ UNCHANGED <<disk, deleted>>
     ELSE /\ disk' = Splice(disk, idx)
          /\ deleted' = deleted \cup {disk[idx].id}
          /\ lastCall' = Call("delete", FALSE, FALSE, "ok", TRUE)
  /\ UNCHANGED <<clock, nextId, tick, runs, fireLog, failLog>>
  /\ UNCHANGED notCron

DeleteCron(id) == DeleteCronAt(FindIndex(disk, id))

\* ------------------------------------------------------------------------
\* Cron runner: runCronTick, called from the gateway's timers
\* ------------------------------------------------------------------------

Ticks == 1..MaxTicks

\* The wall clock counts minutes from Thursday 2026-01-01 00:00 local time and
\* stays within that month; these are the components a Date gives for it.
DateOf(m) ==
  [year |-> 2026, month0 |-> 0, date |-> 1 + (m \div 1440),
   hours |-> (m \div 60) % 24, minutes |-> m % 60, day |-> (4 + (m \div 1440)) % 7]

\* "Skip if already ran this minute": year, month, date, hours and minutes of
\* lastRun and now agree
SameMinuteMutant(lastRun, now) ==
  /\ lastRun.ran
  /\ DateOf(lastRun.at).year = DateOf(now).year
  /\ DateOf(lastRun.at).month0 = DateOf(now).month0
  /\ DateOf(lastRun.at).day = DateOf(now).date
  /\ DateOf(lastRun.at).hours = DateOf(now).hours
  /\ DateOf(lastRun.at).minutes = DateOf(now).minutes

SameMinute(lastRun, now) ==
  /\ lastRun.ran
  /\ DateOf(lastRun.at).year = DateOf(now).year
  /\ DateOf(lastRun.at).month0 = DateOf(now).month0
  /\ DateOf(lastRun.at).date = DateOf(now).date
  /\ DateOf(lastRun.at).hours = DateOf(now).hours
  /\ DateOf(lastRun.at).minutes = DateOf(now).minutes

\* the loop body without `if (!cron.enabled) continue`
ShouldFireParsedMutant(cron, now, parsed) ==
  IF SameMinute(cron.lastRun, now) THEN FALSE
  ELSE IF ~parsed.ok THEN FALSE
  ELSE matchesCron(parsed, DateOf(now))

\* the body of the for loop up to "This cron should fire!": TRUE iff no
\* continue is taken
ShouldFireParsed(cron, now, parsed) ==
  IF ~cron.enabled THEN FALSE
  ELSE IF SameMinute(cron.lastRun, now) THEN FALSE
  ELSE IF ~parsed.ok THEN FALSE
  ELSE matchesCron(parsed, DateOf(now))

ShouldFire(cron, now) == ShouldFireParsed(cron, now, parseCronExpression(cron.schedule))

\* the least index of a set of indexes, 0 when there is none
FirstOf(S) == IF S = {} THEN 0 ELSE CHOOSE k \in S : \A l \in S : k <= l

\* the indexes from `from` on of the jobs the loop executes
Hits(crons, now, from) == {k \in from..Len(crons) : ShouldFire(crons[k], now)}

\* the indexes from `from` on of the jobs whose stored schedule does not parse
Unparsable(crons, from) ==
  {k \in from..Len(crons) : ~validateCron(crons[k].schedule)}

\* the loop leaving at the first schedule that does not parse
StopAtUnparsable(hit, bad) == IF bad # 0 /\ (hit = 0 \/ bad < hit) THEN 0 ELSE hit

NextFiringMutant(crons, now, from) ==
  StopAtUnparsable(FirstOf(Hits(crons, now, from)), FirstOf(Unparsable(crons, from)))

\* the loop from index `from`: the index of the next job it executes, 0 when
\* it runs to the end of the list
NextFiring(crons, now, from) == FirstOf(Hits(crons, now, from))

IdleTick ==
  [pc |-> "idle", now |-> 0, run |-> 0, crons |-> <<>>, loaded |-> <<>>,
   i |-> 0, results |-> <<>>]

\* the loop resumes at index `from` with the local list and the results so
\* far: it stops at the next executeCronJob it awaits, or leaves the loop and
\* saves when there are results
ResumeAt(rec, crons, results, j) ==
  IF j # 0
  THEN [rec EXCEPT !.pc = "exec", !.crons = crons, !.results = results, !.i = j]
  ELSE [rec EXCEPT !.pc = IF Len(results) > 0 THEN "saving" ELSE "done",
                   !.crons = crons, !.results = results, !.i = Len(crons) + 1]

Resume(rec, crons, results, from) ==
  ResumeAt(rec, crons, results, NextFiring(crons, rec.now, from))

\* the execution the tick has just started, added to the history
Fired(rec) ==
  IF rec.pc = "exec"
  THEN {[id |-> rec.crons[rec.i].id, at |-> rec.now, run |-> rec.run]}
  ELSE {}

\* const now = new Date(), then the await of loadCrons begins; a new
\* invocation takes the lowest free slot of the model
TickStart(t) ==
  /\ tick[t].pc = "idle"
  /\ \A u \in 1..(t - 1) : tick[u].pc # "idle"
  /\ runs < MaxRuns
  /\ runs' = runs + 1
  /\ tick' = [tick EXCEPT ![t] = [IdleTick EXCEPT !.pc = "loading", !.now = clock,
                                                  !.run = runs + 1]]
  /\ UNCHANGED <<disk, clock, nextId, calls, fireLog, failLog, lastCall, deleted>>
  /\ UNCHANGED notCron

\* the tick's slot becomes `rec`, and the execution `rec` starts, if any, is
\* added to the history
Step(t, rec) ==
  /\ tick' = [tick EXCEPT ![t] = rec]
  /\ fireLog' = fireLog \cup Fired(rec)

\* loadCrons resolves; the loop runs to its first await
TickLoad(t) ==
  /\ tick[t].pc = "loading"
  /\ Step(t, Resume([tick[t] EXCEPT !.loaded = disk], disk, <<>>, 1))
  /\ UNCHANGED <<disk, clock, nextId, runs, calls, failLog, lastCall, deleted>>
  /\ UNCHANGED notCron

\* result.slice(0, 200), by length
Slice200(len) == IF len < PreviewMax THEN len ELSE PreviewMax

\* the try branch after executeCronJob returned a text of `len` characters
AfterOk(cron, now, len) ==
  [cron EXCEPT !.lastRun = RanAt(now), !.runCount = @ + 1,
               !.lastResult = ResultOf(Slice200(len))]

\* the catch branch after executeCronJob threw an error whose message has
\* `len` characters: cron.lastResult = `Error: ${err.message}`
AfterThrow(cron, now, len) ==
  [cron EXCEPT !.lastRun = RanAt(now), !.lastResult = ResultOf(ErrorPrefixLen + len)]

\* results.push({id, name, status: ...})
Push(results, job, status) == Append(results, [id |-> job.id, status |-> status])

\* the job at the loop's index changed to `job`
Put(rec, job) == [rec.crons EXCEPT ![rec.i] = job]

\* executeCronJob returned its text: the job is recorded and the loop goes on
ExecOkOf(t, rec, job, len) ==
  /\ rec.pc = "exec"
  /\ Step(t, Resume(rec, Put(rec, AfterOk(job, rec.now, len)),
                    Push(rec.results, job, "ok"), rec.i + 1))
  /\ UNCHANGED <<disk, clock, nextId, runs, calls, failLog, lastCall, deleted>>
  /\ UNCHANGED notCron

ExecOk(t, len) ==
  /\ tick[t].pc = "exec"
  /\ ExecOkOf(t, tick[t], tick[t].crons[tick[t].i], len)

\* executeCronJob threw: the error is caught, recorded, and the loop goes on
ExecThrowOf(t, rec, job, len) ==
  /\ rec.pc = "exec"
  /\ Step(t, Resume(rec, Put(rec, AfterThrow(job, rec.now, len)),
                    Push(rec.results, job, "error"), rec.i + 1))
  /\ failLog' = failLog \cup {[id |-> job.id, at |-> rec.now, run |-> rec.run]}
  /\ UNCHANGED <<disk, clock, nextId, runs, calls, lastCall, deleted>>
  /\ UNCHANGED notCron

ExecThrow(t, len) ==
  /\ tick[t].pc = "exec"
  /\ ExecThrowOf(t, tick[t], tick[t].crons[tick[t].i], len)

\* if (results.length > 0) await saveCrons(crons): the whole local list
\* replaces the file
TickSave(t) ==
  /\ tick[t].pc = "saving"
  /\ disk' = tick[t].crons
  /\ tick' = [tick EXCEPT ![t].pc = "done"]
  /\ UNCHANGED <<clock, nextId, runs, calls, fireLog, failLog, lastCall, deleted>>
  /\ UNCHANGED notCron

\* runCronTick returned its results to runCronTickSafe
TickReturn(t) ==
  /\ tick[t].pc = "done"
  /\ tick' = [tick EXCEPT ![t] = IdleTick]
  /\ UNCHANGED <<disk, clock, nextId, runs, calls, fireLog, failLog, lastCall, deleted>>
  /\ UNCHANGED notCron

\* a minute of wall-clock time passes
ClockAdvance ==
  /\ clock < MaxClock
  /\ clock' = clock + 1
  /\ UNCHANGED <<disk, nextId, tick, runs, calls, fireLog, failLog, lastCall, deleted>>
  /\ UNCHANGED notCron

Crud ==
  \/ \E schedule \in SchedInputs, enabled \in BOOLEAN : CreateCron(schedule, enabled)
  \/ \E id \in JobIds : UpdateCron(id)
  \/ \E id \in JobIds : EnableCron(id)
  \/ \E id \in JobIds : DisableCron(id)
  \/ \E id \in JobIds : DeleteCron(id)

TickSteps ==
  \/ \E t \in Ticks : TickLoad(t)
  \/ \E t \in Ticks, len \in TextLens : ExecOk(t, len)
  \/ \E t \in Ticks, len \in TextLens : ExecThrow(t, len)
  \/ \E t \in Ticks : TickSave(t)
  \/ \E t \in Ticks : TickReturn(t)

\* the gateway's timers call runCronTickSafe without waiting for an earlier
\* call: setTimeout(runCronTickSafe, 10000) and setInterval(runCronTickSafe, 60000)
CronNext ==
  \/ \E t \in Ticks : TickStart(t)
  \/ TickSteps
  \/ Crud
  \/ ClockAdvance

\* the same scheduler when every runCronTick has returned before the next is called
NoTickInFlight == \A t \in Ticks : tick[t].pc = "idle"

TickStartSeq(t) == NoTickInFlight /\ TickStart(t)

CronNextSeq ==
  \/ \E t \in Ticks : TickStartSeq(t)
  \/ TickSteps
  \/ Crud
  \/ ClockAdvance

\* ------------------------------------------------------------------------
\* Sub-agent spawner: spawnAgent, spawnAgents
\* ------------------------------------------------------------------------

NoBatch == [state |-> "none", n |-> 0, reason |-> 0, order |-> <<>>, values |-> <<>>]

\* an array filled in the order the promises were fulfilled
ValuesOfMutant(ags, order) == order

\* the array Promise.all fulfils with: at index i the value of the i-th
\* promise, which is the result of the i-th task (named by its index);
\* `order` is the order in which the promises were fulfilled
ValuesOf(ags, order) == [i \in 1..Len(ags) |-> i]

\* the spawnAgent promise of task i is fulfilled
Fulfil(b, i) == [b EXCEPT !.order = Append(@, i)]

\* Promise.all over the spawnAgent promises: fulfilled with the array of all
\* values once every promise is fulfilled, rejected with the reason of the
\* first promise that rejects
PromiseAll(ags, b) ==
  IF b.state # "pending" THEN b
  ELSE IF \E i \in 1..Len(ags) : ags[i].stage = "rejected"
  THEN [b EXCEPT !.state = "rejected",
                 !.reason = CHOOSE i \in 1..Len(ags) : ags[i].stage = "rejected"]
  ELSE IF \A i \in 1..Len(ags) : ags[i].stage = "fulfilled"
  THEN [b EXCEPT !.state = "fulfilled", !.values = ValuesOf(ags, b.order)]
  ELSE b

\* the options of a task that spawnAgent reads for the journal: opts.journal
\* is the boolean true or anything else (absent, false, a truthy non-boolean),
\* opts.journalSection is given or not
TaskOpts == [journal : {"true", "other"}, section : BOOLEAN]

\* opts.journal === true && opts.journalSection
WantsJournalMutant(opts) == opts.journal = "true"

WantsJournal(opts) == opts.journal = "true" /\ opts.section

\* spawnAgents(tasks): tasks.map starts every spawnAgent, each running to its
\* first await (buildSystemPrompt)
SpawnAgents(opts) ==
  /\ batch.state = "none"
  /\ agents' = [i \in 1..Len(opts) |-> [stage |-> "prompt", opts |-> opts[i]]]
  /\ batch' = PromiseAll(agents', [NoBatch EXCEPT !.state = "pending", !.n = Len(opts)])
  /\ UNCHANGED journal
  /\ UNCHANGED notSpawn

\* buildSystemPrompt resolved: provider.chat is called and awaited
PromptDone(i) ==
  /\ i \in 1..Len(agents)
  /\ agents[i].stage = "prompt"
  /\ agents' = [agents EXCEPT ![i].stage = "chat"]
  /\ UNCHANGED <<batch, journal>>
  /\ UNCHANGED notSpawn

\* provider.chat resolved: the entry is appended when asked for, otherwise
\* spawnAgent returns {content, usage, role}
ChatDone(i) ==
  /\ i \in 1..Len(agents)
  /\ agents[i].stage = "chat"
  /\ agents' = [agents EXCEPT ![i].stage =
                  IF WantsJournal(agents[i].opts) THEN "journal" ELSE "fulfilled"]
  /\ batch' = PromiseAll(agents', IF WantsJournal(agents[i].opts) THEN batch
                                   ELSE Fulfil(batch, i))
  /\ UNCHANGED journal
  /\ UNCHANGED notSpawn

\* appendEntry resolved: spawnAgent returns
JournalDone(i) ==
  /\ i \in 1..Len(agents)
  /\ agents[i].stage = "journal"
  /\ journal' = Append(journal, i)
  /\ agents' = [agents EXCEPT ![i].stage = "fulfilled"]
  /\ batch' = PromiseAll(agents', Fulfil(batch, i))
  /\ UNCHANGED notSpawn

\* buildSystemPrompt, provider.chat or appendEntry threw: the spawnAgent
\* promise rejects
AgentThrow(i) ==
  /\ i \in 1..Len(agents)
  /\ agents[i].stage \in {"prompt", "chat", "journal"}
  /\ agents' = [agents EXCEPT ![i].stage = "rejected"]
  /\ batch' = PromiseAll(agents', batch)
  /\ UNCHANGED journal
  /\ UNCHANGED notSpawn

\* the task lists of this model
TaskLists == UNION {[1..n -> TaskOpts] : n \in 0..MaxTasks}

SpawnNext ==
  \/ \E opts \in TaskLists : SpawnAgents(opts)
  \/ \E i \in 1..MaxTasks : PromptDone(i)
  \/ \E i \in 1..MaxTasks : ChatDone(i)
  \/ \E i \in 1..MaxTasks : JournalDone(i)
  \/ \E i \in 1..MaxTasks : AgentThrow(i)

\* ------------------------------------------------------------------------
\* crons.json on disk: saveCrons, loadCrons
\* ------------------------------------------------------------------------

\* the jobs of the lists saveCrons is given in this model, each standing for
\* the text of one job object
FileJobs == {"a", "b"}

FileLists == UNION {[1..n -> FileJobs] : n \in 0..MaxFileLen}

\* JSON.stringify(crons, null, 2) as tokens: "[", the jobs separated by ",", "]"
RECURSIVE Elements(_)
Elements(list) ==
  IF list = <<>> THEN <<>>
  ELSE IF Len(list) = 1 THEN <<list[1]>>
  ELSE <<list[1], ",">> \o Elements(Tail(list))

Stringify(list) == <<"[">> \o Elements(list) \o <<"]">>

\* the elements between the brackets: a job, then "," and a job, repeatedly
RECURSIVE ElementsOk(_)
ElementsOk(toks) ==
  \/ toks = <<>>
  \/ /\ toks[1] \in FileJobs
     /\ \/ Len(toks) = 1
        \/ Len(toks) >= 3 /\ toks[2] = "," /\ ElementsOk(SubSeq(toks, 3, Len(toks)))

\* JSON.parse accepts the text
JsonOk(text) ==
  /\ Len(text) >= 2
  /\ text[1] = "["
  /\ text[Len(text)] = "]"
  /\ ElementsOk(SubSeq(text, 2, Len(text) - 1))
  /\ (Len(text) > 2 => text[Len(text) - 1] # ",")

\* the array JSON.parse returns for a text it accepts
RECURSIVE JobsIn(_)
JobsIn(toks) ==
  IF toks = <<>> THEN <<>>
  ELSE IF Head(toks) \in FileJobs THEN <<Head(toks)>> \o JobsIn(Tail(toks))
  ELSE JobsIn(Tail(toks))

\* loadCrons: JSON.parse of the file, [] when readFile or JSON.parse throws
LoadCronsOf(text) == IF JsonOk(text) THEN JobsIn(text) ELSE <<>>

NoWrite == [active |-> FALSE, text |-> <<>>]

NotLoaded == [done |-> FALSE, list |-> <<>>]

NoCreate == [stage |-> "none", before |-> <<>>, job |-> "none", readOk |-> TRUE]

\* loadCrons with the outcome of readFile: try { JSON.parse(await readFile) }
\* catch { return [] }
LoadCronsRead(text, readOk) == IF readOk THEN LoadCronsOf(text) ELSE <<>>

\* writeFile opens crons.json for writing, which truncates it, and then
\* writes the text
BeginWrite(list) ==
  /\ ~crWrite.active
  /\ crWrite' = [active |-> TRUE, text |-> Stringify(list)]
  /\ crFile' = <<>>
  /\ crFailed' = FALSE
  /\ crLoaded' = NotLoaded
  /\ UNCHANGED crPrior
  /\ UNCHANGED notFile

\* saveCrons(crons) of a caller other than createCron
SaveBegin(list) ==
  /\ BeginWrite(list)
  /\ crCreate' = NoCreate

\* createCron with a valid schedule: the list is loaded, the new job pushed
\* and the list saved; `loaded` is what loadCrons returned
CreateCronWith(job, readOk, loaded) ==
  /\ Len(crPrior) < MaxFileLen
  /\ BeginWrite(Append(loaded, job))
  /\ crCreate' = [stage |-> "saving", before |-> crPrior, job |-> job, readOk |-> readOk]

CreateCronFile(job, readOk) == CreateCronWith(job, readOk, LoadCronsRead(crFile, readOk))

\* the next part of the text reaches the file
SaveWrite ==
  /\ crWrite.active
  /\ Len(crFile) < Len(crWrite.text)
  /\ crFile' = Append(crFile, crWrite.text[Len(crFile) + 1])
  /\ UNCHANGED <<crWrite, crPrior, crFailed, crLoaded, crCreate>>
  /\ UNCHANGED notFile

\* writeFile resolves: the whole text is in the file
SaveDone ==
  /\ crWrite.active
  /\ crFile = crWrite.text
  /\ crWrite' = NoWrite
  /\ crPrior' = LoadCronsOf(crFile)
  /\ crCreate' = IF crCreate.stage = "saving" THEN [crCreate EXCEPT !.stage = "done"]
                 ELSE crCreate
  /\ UNCHANGED <<crFile, crFailed, crLoaded>>
  /\ UNCHANGED notFile

\* writeFile rejects or the process is interrupted before the whole text is
\* written: the file keeps what has been written so far
SaveFail ==
  /\ crWrite.active
  /\ Len(crFile) < Len(crWrite.text)
  /\ crWrite' = NoWrite
  /\ crFailed' = TRUE
  /\ crCreate' = NoCreate
  /\ UNCHANGED <<crFile, crPrior, crLoaded>>
  /\ UNCHANGED notFile

\* loadCrons() after the save has ended
LoadCrons ==
  /\ ~crWrite.active
  /\ ~crLoaded.done
  /\ crLoaded' = [done |-> TRUE, list |-> LoadCronsOf(crFile)]
  /\ UNCHANGED <<crFile, crWrite, crPrior, crFailed, crCreate>>
  /\ UNCHANGED notFile

FileNext ==
  \/ \E list \in FileLists : SaveBegin(list)
  \/ \E job \in FileJobs, readOk \in BOOLEAN : CreateCronFile(job, readOk)
  \/ SaveWrite
  \/ SaveDone
  \/ SaveFail
  \/ LoadCrons

\* ------------------------------------------------------------------------
\* Chat front ends: the panel's POST /api/chat and the CLI's line handler
\* ------------------------------------------------------------------------

SessionIds == 1..MaxSessions

Requests == 1..MaxRequests

Lines == 1..MaxLines

\* body.sessionId absent
NoSession == 0

IdleHandler == [pc |-> "idle", sid |-> NoSession]

\* POST /api/chat arrives with body.sessionId = sid: the handler awaits parseJSON
ChatArrive(r, sid) ==
  /\ req[r].pc = "idle"
  /\ req' = [req EXCEPT ![r] = [pc |-> "body", sid |-> sid]]
  /\ UNCHANGED <<activeSessions, cliSession, line>>
  /\ UNCHANGED notChat

\* the handler after the body is read: the session of the map is streamed
\* to at once; an id that is not in the map is resumed first; no id is a 400
AfterBody(h, sessions) ==
  IF h.sid \in sessions THEN [h EXCEPT !.pc = "stream"]
  ELSE IF h.sid # NoSession THEN [h EXCEPT !.pc = "resume"]
  ELSE IdleHandler

\* parseJSON resolved
ChatBody(r) ==
  /\ req[r].pc = "body"
  /\ req' = [req EXCEPT ![r] = AfterBody(req[r], activeSessions)]
  /\ UNCHANGED <<activeSessions, cliSession, line>>
  /\ UNCHANGED notChat

\* Session.resume resolved: the session is put in the map and streamed to
ChatResumed(r) ==
  /\ req[r].pc = "resume"
  /\ activeSessions' = activeSessions \cup {req[r].sid}
  /\ req' = [req EXCEPT ![r].pc = "stream"]
  /\ UNCHANGED <<cliSession, line>>
  /\ UNCHANGED notChat

\* Session.resume threw: 404
ChatResumeFailed(r) ==
  /\ req[r].pc = "resume"
  /\ req' = [req EXCEPT ![r] = IdleHandler]
  /\ UNCHANGED <<activeSessions, cliSession, line>>
  /\ UNCHANGED notChat

\* the for await over session.sendStream ended, with done or with an error:
\* res.end()
ChatStreamEnd(r) ==
  /\ req[r].pc = "stream"
  /\ req' = [req EXCEPT ![r] = IdleHandler]
  /\ UNCHANGED <<activeSessions, cliSession, line>>
  /\ UNCHANGED notChat

\* rl.on('line'): a chat line is read and the handler starts
\* session.sendStream(input) on the CLI's current session
CliChatLine(l) ==
  /\ line[l].pc = "idle"
  /\ line' = [line EXCEPT ![l] = [pc |-> "stream", sid |-> cliSession]]
  /\ UNCHANGED <<activeSessions, req, cliSession>>
  /\ UNCHANGED notChat

\* the line `new`: the handler awaits session.save()
CliNewLine(l) ==
  /\ line[l].pc = "idle"
  /\ cliSession < MaxSessions
  /\ line' = [line EXCEPT ![l] = [pc |-> "new", sid |-> cliSession]]
  /\ UNCHANGED <<activeSessions, req, cliSession>>
  /\ UNCHANGED notChat

\* session = new Session() after the save
CliNewDone(l) ==
  /\ line[l].pc = "new"
  /\ cliSession' = IF cliSession < MaxSessions THEN cliSession + 1 ELSE cliSession
  /\ line' = [line EXCEPT ![l] = IdleHandler]
  /\ UNCHANGED <<activeSessions, req>>
  /\ UNCHANGED notChat

\* the for await over session.sendStream ended or threw: rl.prompt()
CliStreamEnd(l) ==
  /\ line[l].pc = "stream"
  /\ line' = [line EXCEPT ![l] = IdleHandler]
  /\ UNCHANGED <<activeSessions, req, cliSession>>
  /\ UNCHANGED notChat

ChatNext ==
  \/ \E r \in Requests, sid \in SessionIds \cup {NoSession} : ChatArrive(r, sid)
  \/ \E r \in Requests : ChatBody(r)
  \/ \E r \in Requests : ChatResumed(r)
  \/ \E r \in Requests : ChatResumeFailed(r)
  \/ \E r \in Requests : ChatStreamEnd(r)
  \/ \E l \in Lines : CliChatLine(l)
  \/ \E l \in Lines : CliNewLine(l)
  \/ \E l \in Lines : CliNewDone(l)
  \/ \E l \in Lines : CliStreamEnd(l)

\* ------------------------------------------------------------------------
\* Gateway: startGateway, its timers, runHeartbeatTick, runCronTickSafe,
\* shutdown
\* ------------------------------------------------------------------------

TickKinds == {"heartbeat", "cron"}

\* gatewayState before startGateway: no timer
NoTimers ==
  [running |-> FALSE, heartbeatTimer |-> FALSE, cronTimer |-> FALSE,
   heartbeatIntervalMs |-> 0]

\* config.heartbeat.intervalMinutes (0: not configured) and the
\* heartbeat.intervalMinutes of a POST /api/config body
ConfigMinutes == {0, 5}

ReloadMinutes == {1, 5}

\* (intervalMinutes || 15) * 60 * 1000
MsOf(intervalMinutes) ==
  (IF intervalMinutes = 0 THEN 15 ELSE intervalMinutes) * 60 * 1000

\* a reload that leaves the old timer armed
ClearedMutant(timers, handle) == timers

\* if (gatewayState.heartbeatTimer) clearInterval(gatewayState.heartbeatTimer)
Cleared(timers, handle) ==
  IF handle /\ timers # <<>> THEN SubSeq(timers, 1, Len(timers) - 1) ELSE timers

\* the interval timer of a kind of tick is armed
Armed(kind) ==
  IF kind = "heartbeat" THEN gatewayState.heartbeatTimer ELSE gatewayState.cronTimer

NoErrors == [caught |-> FALSE, later |-> FALSE]

\* startGateway: setInterval and setTimeout for the heartbeat and for the
\* cron check, gatewayState.running = true, the signal handlers installed
StartGateway ==
  /\ proc = "init"
  /\ proc' = "up"
  /\ \E intervalMinutes \in ConfigMinutes :
       /\ gatewayState' = [running |-> TRUE, heartbeatTimer |-> TRUE,
                           cronTimer |-> TRUE,
                           heartbeatIntervalMs |-> MsOf(intervalMinutes)]
       /\ hbIntervals' = Append(hbIntervals, MsOf(intervalMinutes))
  /\ pending' = TickKinds
  /\ UNCHANGED <<inFlight, tickErrors>>
  /\ UNCHANGED notGate

\* a tick starts: runHeartbeatTick or runCronTickSafe runs to its await
TickBegins(kind) ==
  /\ inFlight[kind] < MaxInFlight
  /\ inFlight' = [inFlight EXCEPT ![kind] = @ + 1]
  /\ tickErrors' = [tickErrors EXCEPT !.later = tickErrors.caught]

\* the interval timer of a kind fires
IntervalFires(kind) ==
  /\ proc = "up"
  /\ Armed(kind)
  /\ TickBegins(kind)
  /\ UNCHANGED <<proc, gatewayState, pending, hbIntervals>>
  /\ UNCHANGED notGate

\* the one-shot timer of a kind fires (5 s and 10 s after the start)
TimeoutFires(kind) ==
  /\ proc = "up"
  /\ kind \in pending
  /\ pending' = pending \ {kind}
  /\ TickBegins(kind)
  /\ UNCHANGED <<proc, gatewayState, hbIntervals>>
  /\ UNCHANGED notGate

\* runHeartbeat or runCronTick returned: the tick records it and ends
TickReturns(kind) ==
  /\ proc = "up"
  /\ inFlight[kind] > 0
  /\ inFlight' = [inFlight EXCEPT ![kind] = @ - 1]
  /\ UNCHANGED <<proc, gatewayState, pending, tickErrors, hbIntervals>>
  /\ UNCHANGED notGate

\* what becomes of the process when runHeartbeat or runCronTick throws
\* inside a tick: the catch of the tick logs the error
OnTickErrorMutant(p) == "crashed"

OnTickError(p) == p

\* runHeartbeat or runCronTick threw
TickThrows(kind) ==
  /\ proc = "up"
  /\ inFlight[kind] > 0
  /\ inFlight' = [inFlight EXCEPT ![kind] = @ - 1]
  /\ proc' = OnTickError(proc)
  /\ tickErrors' = [caught |-> TRUE, later |-> FALSE]
  /\ UNCHANGED <<gatewayState, pending, hbIntervals>>
  /\ UNCHANGED notGate

\* SIGTERM or SIGINT: shutdown clears both intervals, stops the bot and the
\* server, removes the PID file and calls process.exit(0)
Shutdown ==
  /\ proc = "up"
  /\ gatewayState' = [gatewayState EXCEPT !.heartbeatTimer = FALSE, !.cronTimer = FALSE]
  /\ hbIntervals' = Cleared(hbIntervals, gatewayState.heartbeatTimer)
  /\ proc' = "exited"
  /\ UNCHANGED <<pending, inFlight, tickErrors>>
  /\ UNCHANGED notGate

\* POST /api/config with heartbeat.intervalMinutes while gatewayState.running:
\* reloadHeartbeatInterval clears the timer, stores the new period and arms
\* a new interval
ReloadHeartbeatInterval(intervalMinutes) ==
  /\ proc = "up"
  /\ gatewayState.running
  /\ gatewayState' = [gatewayState EXCEPT !.heartbeatIntervalMs = MsOf(intervalMinutes),
                                          !.heartbeatTimer = TRUE]
  /\ hbIntervals' = Append(Cleared(hbIntervals, gatewayState.heartbeatTimer),
                           MsOf(intervalMinutes))
  /\ UNCHANGED <<proc, pending, inFlight, tickErrors>>
  /\ UNCHANGED notGate

GatewayNext ==
  \/ StartGateway
  \/ \E kind \in TickKinds : IntervalFires(kind)
  \/ \E kind \in TickKinds : TimeoutFires(kind)
  \/ \E kind \in TickKinds : TickReturns(kind)
  \/ \E kind \in TickKinds : TickThrows(kind)
  \/ Shutdown
  \/ \E intervalMinutes \in ReloadMinutes : ReloadHeartbeatInterval(intervalMinutes)

\* ------------------------------------------------------------------------
\* Browser agent: runBrowserTask
\* ------------------------------------------------------------------------

MAX_STEPS == 25

\* what call.arguments.text || call.arguments.url is: absent, a string, or a
\* truthy value that is not a string (a number, true)
TextKinds == {"none", "string", "other"}

\* the tool calls a completion can request: done, a browser tool, or a name
\* executeBrowserTool does not know
\* call.id: given by the provider, or absent
CallIds == {"given", "none"}

ToolCalls ==
  {[name |-> "done", text |-> "string", id |-> "given"],
   [name |-> "bogus", text |-> "none", id |-> "given"]}
    \cup [name : {"fill"}, text : TextKinds, id : CallIds]

\* response.toolCalls of a completion; empty for a plain-text reply
Replies == UNION {[1..n -> ToolCalls] : n \in 0..MaxToolCalls}

NoMessage == [any |-> FALSE, threw |-> FALSE, content |-> "none"]

\* runBrowserTask not called yet
NoTask ==
  [pc |-> "off", step |-> 0, modelCalls |-> 0, calls |-> <<>>, result |-> "none",
   threw |-> FALSE, delivered |-> NoMessage, outcome |-> "none", cause |-> "none",
   closed |-> FALSE, reply |-> <<>>, recorded |-> <<>>, tail |-> <<>>]

\* the function returns `outcome` after await browser.close()
Closing(t, outcome) == [t EXCEPT !.pc = "closing", !.outcome = outcome]

\* an outer catch that rethrows without closing the browser
EscapesMutant(t, cause) ==
  [t EXCEPT !.pc = "ended", !.outcome = "threw", !.cause = cause]

\* an exception leaves the loop: the outer catch closes the browser and
\* rethrows
Escapes(t, cause) ==
  [t EXCEPT !.pc = "ended", !.outcome = "threw", !.cause = cause, !.closed = TRUE]

\* for (let step = 0; step < MAX_STEPS; step++): the next completion is
\* requested, or the loop is left for the step-limit message
NextStep(t) ==
  IF t.step + 1 < MAX_STEPS
  THEN [t EXCEPT !.pc = "chat", !.step = @ + 1, !.calls = <<>>]
  ELSE Closing([t EXCEPT !.step = @ + 1, !.calls = <<>>], "limit")

\* for (const call of toolCalls): done returns, any other call is executed;
\* after the last call the step ends
Dispatch(t) ==
  IF t.calls = <<>> THEN NextStep(t)
  ELSE IF Head(t.calls).name = "done" THEN Closing(t, "done")
  ELSE [t EXCEPT !.pc = "exec", !.result = "none", !.threw = FALSE]

\* the browser is launched, the page loaded and the first snapshot taken: the
\* loop starts
RunBrowserTask ==
  /\ bt.pc = "off"
  /\ bt' = [NoTask EXCEPT !.pc = "chat"]
  /\ UNCHANGED notBrowser

\* launch, navigate or the first snapshot threw, after new Browser()
StartThrows ==
  /\ bt.pc = "off"
  /\ bt' = Escapes(NoTask, "browser")
  /\ UNCHANGED notBrowser

\* provider.chat returned
ChatReturns(reply) ==
  /\ bt.pc = "chat"
  /\ bt' = IF reply = <<>>
           THEN Closing([bt EXCEPT !.modelCalls = @ + 1], "text")
           ELSE Dispatch([bt EXCEPT !.modelCalls = @ + 1, !.calls = reply,
                                    !.reply = reply, !.recorded = <<>>])
  /\ UNCHANGED notBrowser

\* provider.chat threw
ChatThrows ==
  /\ bt.pc = "chat"
  /\ bt' = Escapes(bt, "model")
  /\ UNCHANGED notBrowser

\* executeBrowserTool returned: the default branch returns `Unknown action`
AfterToolReturn(t) ==
  [t EXCEPT !.pc = "record",
            !.result = IF Head(t.calls).name = "bogus" THEN "Unknown action" ELSE "ok"]

ToolReturns ==
  /\ bt.pc = "exec"
  /\ bt' = AfterToolReturn(bt)
  /\ UNCHANGED notBrowser

\* executeBrowserTool threw: catch (err) { result = `Error: ${err.message}` }
AfterToolThrowMutant(t) == Escapes(t, "tool")

AfterToolThrow(t) == [t EXCEPT !.pc = "record", !.result = "Error", !.threw = TRUE]

ToolThrows ==
  /\ bt.pc = "exec"
  /\ Head(bt.calls).name # "bogus"
  /\ bt' = AfterToolThrow(bt)
  /\ UNCHANGED notBrowser

\* the action is recorded and logged: histEntry.text.slice(0, 40) is called
\* when histEntry.text is truthy, and is not a function unless it is a string;
\* then the 300 ms delay and the snapshot are awaited
AfterRecord(t) ==
  IF Head(t.calls).text = "other" THEN Escapes(t, "log")
  ELSE [t EXCEPT !.pc = "snap"]

RecordAction ==
  /\ bt.pc = "record"
  /\ bt' = AfterRecord(bt)
  /\ UNCHANGED notBrowser

\* getSnapshot and getURL returned: the assistant message and the tool
\* message, whose content starts with `Action: ${result}`, are pushed
\* call.id || `call_${step}`
ToolCallId(call, step) ==
  IF call.id # "none" THEN [from |-> "call", step |-> 0] ELSE [from |-> "step", step |-> step]

\* the two messages pushed for a call: the assistant message carrying the
\* call, then the tool message with the observation
MessagesForMutant(call, step) ==
  <<[role |-> "tool", id |-> ToolCallId(call, step), call |-> call],
    [role |-> "assistant", id |-> ToolCallId(call, step), call |-> call]>>

MessagesFor(call, step) ==
  <<[role |-> "assistant", id |-> ToolCallId(call, step), call |-> call],
    [role |-> "tool", id |-> ToolCallId(call, step), call |-> call]>>

AfterSnapshot(t) ==
  Dispatch([t EXCEPT !.delivered = [any |-> TRUE, threw |-> t.threw, content |-> t.result],
                     !.recorded = Append(@, Head(t.calls)),
                     !.tail = MessagesFor(Head(t.calls), t.step),
                     !.calls = Tail(t.calls)])

SnapshotReturns ==
  /\ bt.pc = "snap"
  /\ bt' = AfterSnapshot(bt)
  /\ UNCHANGED notBrowser

\* getSnapshot or getURL threw
SnapshotThrows ==
  /\ bt.pc = "snap"
  /\ bt' = Escapes(bt, "browser")
  /\ UNCHANGED notBrowser

\* browser.close() resolved: runBrowserTask returns
BrowserClosed ==
  /\ bt.pc = "closing"
  /\ bt' = [bt EXCEPT !.pc = "ended", !.closed = TRUE]
  /\ UNCHANGED notBrowser

BrowserNext ==
  \/ RunBrowserTask
  \/ StartThrows
  \/ \E reply \in Replies : ChatReturns(reply)
  \/ ChatThrows
  \/ ToolReturns
  \/ ToolThrows
  \/ RecordAction
  \/ SnapshotReturns
  \/ SnapshotThrows
  \/ BrowserClosed

\* ------------------------------------------------------------------------
\* Telegram bot: startTelegramBot, handleMessage
\* ------------------------------------------------------------------------

ChatIds == 1..MaxChats

NotStarted == [started |-> FALSE, allowed |-> {}]

NoTgMessage == [pc |-> "idle", chat |-> 0]

\* the poll loop before startTelegramBot: offset 0, no updates at hand, no
\* handleMessage in flight
NoPoll == [pc |-> "off", offset |-> 0, batch |-> <<>>, active |-> 0, threw |-> {}]

\* allowedChatIds.length > 0 && !allowedChatIds.includes(String(chatId))
Unauthorized(allowed, chatId) == allowed # {} /\ chatId \notin allowed

\* the token is verified and the session map loaded; allowedChatIds comes
\* from config.telegram, an empty list when it is not configured; poll() is
\* started and calls getUpdates
StartTelegramBot(allowed) ==
  /\ ~tgBot.started
  /\ tgBot' = [started |-> TRUE, allowed |-> allowed]
  /\ tgPoll' = [NoPoll EXCEPT !.pc = "polling"]
  /\ UNCHANGED <<tgMsg, sessionMap, streamed, refused, arrived, taken, notTelegram>>

\* a chat sends the bot a message: Telegram stores it as the update with the
\* next update_id
UpdateArrives ==
  /\ arrived < MaxUpdates
  /\ arrived' = arrived + 1
  /\ UNCHANGED <<tgBot, tgPoll, tgMsg, sessionMap, streamed, refused, taken, notTelegram>>

\* the update ids from `from` to `to`, in order
Ids(from, to) == [k \in 1..(to - from + 1) |-> from + k - 1]

\* the first update_id getUpdates returns for an offset
FirstFrom(offset) == IF offset < 1 THEN 1 ELSE offset

\* the for loop when it is not waiting for a handler: at the next update of
\* the batch, or back in the while loop at getUpdates
LoopOn(poll) ==
  [poll EXCEPT !.pc = IF poll.batch = <<>> THEN "polling" ELSE "next"]

\* getUpdates resolved with the updates from offset up to `last`
GetUpdatesReturns(last) ==
  /\ tgPoll.pc = "polling"
  /\ last \in FirstFrom(tgPoll.offset)..arrived
  /\ tgPoll' = LoopOn([tgPoll EXCEPT !.batch = Ids(FirstFrom(tgPoll.offset), last)])
  /\ UNCHANGED <<tgBot, tgMsg, sessionMap, streamed, refused, arrived, taken, notTelegram>>

\* getUpdates rejected: the error is logged and the loop backs off 5 s
GetUpdatesThrows ==
  /\ tgPoll.pc = "polling"
  /\ tgPoll' = [tgPoll EXCEPT !.pc = "backoff"]
  /\ UNCHANGED <<tgBot, tgMsg, sessionMap, streamed, refused, arrived, taken, notTelegram>>

\* the back-off is over: the while loop calls getUpdates again
BackoffOver ==
  /\ tgPoll.pc = "backoff"
  /\ tgPoll' = [tgPoll EXCEPT !.pc = "polling"]
  /\ UNCHANGED <<tgBot, tgMsg, sessionMap, streamed, refused, arrived, taken, notTelegram>>

\* an offset that stays at the update just taken
NextOffsetMutant(update_id) == update_id

\* offset = update.update_id + 1
NextOffset(update_id) == update_id + 1

\* a loop that calls handleMessage without awaiting it
AwaitHandlerMutant(poll) == LoopOn([poll EXCEPT !.active = @ + 1])

\* await handleMessage(...): the loop waits for the handler
AwaitHandler(poll) == [poll EXCEPT !.pc = "handling", !.active = @ + 1]

\* handleMessage up to its first await: a message without text is ignored,
\* an unauthorized one is answered `Not authorized.`, any other goes on to
\* getSession
HandlerStart(allowed, chatId) ==
  IF Unauthorized(allowed, chatId)
  THEN [pc |-> "refusing", chat |-> chatId]
  ELSE [pc |-> "getSession", chat |-> chatId]

\* the for loop takes the next update: offset = update.update_id + 1, then
\* handleMessage is called and awaited
HandleMessage(chatId, hasText) ==
  /\ tgPoll.pc = "next"
  /\ taken' = Append(taken, Head(tgPoll.batch))
  /\ IF hasText
     THEN /\ tgMsg' = HandlerStart(tgBot.allowed, chatId)
          /\ tgPoll' = AwaitHandler([tgPoll EXCEPT !.offset = NextOffset(Head(tgPoll.batch)),
                                                   !.batch = Tail(@)])
     ELSE /\ tgMsg' = tgMsg
          /\ tgPoll' = LoopOn([tgPoll EXCEPT !.offset = NextOffset(Head(tgPoll.batch)),
                                             !.batch = Tail(@)])
  /\ UNCHANGED <<tgBot, sessionMap, streamed, refused, arrived, notTelegram>>

\* handleMessage returned: the loop goes on
HandlerReturns(poll) == LoopOn([poll EXCEPT !.active = @ - 1])

\* sendMessage(token, chatId, 'Not authorized.') resolved: handleMessage
\* returns
RefusalSent ==
  /\ tgMsg.pc = "refusing"
  /\ tgMsg' = NoTgMessage
  /\ refused' = refused \cup {tgMsg.chat}
  /\ tgPoll' = HandlerReturns(tgPoll)
  /\ UNCHANGED <<tgBot, sessionMap, streamed, arrived, taken, notTelegram>>

\* getSession resumed the chat's session or created and stored a new one;
\* after the typing indicator session.sendStream(text) is called
GotSession ==
  /\ tgMsg.pc = "getSession"
  /\ sessionMap' = sessionMap \cup {tgMsg.chat}
  /\ streamed' = streamed \cup {tgMsg.chat}
  /\ tgMsg' = [tgMsg EXCEPT !.pc = "streaming"]
  /\ UNCHANGED <<tgBot, tgPoll, refused, arrived, taken, notTelegram>>

\* the stream ended or threw, the reply or the error text was sent
TgStreamEnd ==
  /\ tgMsg.pc = "streaming"
  /\ tgMsg' = NoTgMessage
  /\ tgPoll' = HandlerReturns(tgPoll)
  /\ UNCHANGED <<tgBot, sessionMap, streamed, refused, arrived, taken, notTelegram>>

\* handleMessage rejected (the `Not authorized.` reply, getSession or the
\* sending of the error text failed): the for loop is left for the catch of
\* the poll loop, which logs and backs off; the rest of the batch is dropped
\* (threw records the update whose handler failed)
HandlerThrows ==
  /\ tgMsg.pc \in {"refusing", "getSession", "streaming"}
  /\ tgMsg' = NoTgMessage
  /\ tgPoll' = [tgPoll EXCEPT !.pc = "backoff", !.batch = <<>>, !.active = @ - 1,
                               !.threw = @ \cup {tgPoll.offset - 1}]
  /\ UNCHANGED <<tgBot, sessionMap, streamed, refused, arrived, taken, notTelegram>>

TelegramNext ==
  \/ \E allowed \in SUBSET ChatIds : StartTelegramBot(allowed)
  \/ UpdateArrives
  \/ \E last \in 1..MaxUpdates : GetUpdatesReturns(last)
  \/ GetUpdatesThrows
  \/ BackoffOver
  \/ \E chatId \in ChatIds, hasText \in BOOLEAN : HandleMessage(chatId, hasText)
  \/ RefusalSent
  \/ GotSession
  \/ TgStreamEnd
  \/ HandlerThrows

\* ------------------------------------------------------------------------
\* Heartbeat: runHeartbeat and its callers runHeartbeatChannel, runHeartbeatTick
\* ------------------------------------------------------------------------

\* the complexity estimate Tier 1 tags a candidate event with
EventTags == {"simple", "complex"}

\* the candidate events of one tick
EventLists == UNION {[1..n -> EventTags] : n \in 1..MaxEvents}

HbCallers == {"channel", "gateway"}

NoHeartbeat ==
  [pc |-> "idle", caller |-> "none", verdict |-> "none", events |-> <<>>, k |-> 0,
   tier2 |-> 0, tier3 |-> 0, journal |-> 0, result |-> 0, logged |-> FALSE,
   failed |-> FALSE]

\* the caller prints the result: runHeartbeatChannel returns silently when
\* result.events === 0, runHeartbeatTick prints only if (result.events > 0)
CallerPrintsMutant(events) == TRUE

CallerPrints(events) == events > 0

\* a caller awaits runHeartbeat(): Tier 1 is asked to classify the signals
HeartbeatCalled(caller) ==
  /\ hb.pc = "idle"
  /\ hb' = [NoHeartbeat EXCEPT !.pc = "tier1", !.caller = caller]
  /\ UNCHANGED notHeartbeat

\* the run ends: the state is persisted and {events, actions} is returned
RunEnds(h) == [h EXCEPT !.pc = "returned", !.result = Len(h.events)]

\* the next candidate event goes to Tier 2 when marked simple and to Tier 3
\* when marked complex; after the last one the run ends
NextEvent(h) ==
  IF h.k + 1 > Len(h.events) THEN RunEnds(h)
  ELSE [h EXCEPT !.k = @ + 1,
                 !.pc = IF h.events[h.k + 1] = "simple" THEN "tier2" ELSE "tier3"]

\* Tier 1 answers `nothing to do`: no further tier, no log write
Tier1Nothing ==
  /\ hb.pc = "tier1"
  /\ hb' = RunEnds([hb EXCEPT !.verdict = "nothing"])
  /\ UNCHANGED notHeartbeat

\* Tier 1 answers a list of candidate events
Tier1Events(events) ==
  /\ hb.pc = "tier1"
  /\ hb' = NextEvent([hb EXCEPT !.verdict = "events", !.events = events])
  /\ UNCHANGED notHeartbeat

\* the provider fails at Tier 1: a logged no-op for this tick
Tier1Fails ==
  /\ hb.pc = "tier1"
  /\ hb' = RunEnds([hb EXCEPT !.verdict = "error", !.failed = TRUE])
  /\ UNCHANGED notHeartbeat

\* the Tier 2 disposable agent resolved the event and its outcome is logged
Tier2Resolves ==
  /\ hb.pc = "tier2"
  /\ hb' = NextEvent([hb EXCEPT !.tier2 = @ + 1, !.journal = @ + 1])
  /\ UNCHANGED notHeartbeat

\* Tier 2 reports it could not finish: the event is handed to Tier 3
Tier2Defers ==
  /\ hb.pc = "tier2"
  /\ hb' = [hb EXCEPT !.tier2 = @ + 1, !.pc = "tier3"]
  /\ UNCHANGED notHeartbeat

\* the Tier 3 session handled the event and its outcome is logged
Tier3Done ==
  /\ hb.pc = "tier3"
  /\ hb' = NextEvent([hb EXCEPT !.tier3 = @ + 1, !.journal = @ + 1])
  /\ UNCHANGED notHeartbeat

\* runHeartbeat resolved: the caller prints the result or stays silent
CallerResumes ==
  /\ hb.pc = "returned"
  /\ hb' = [hb EXCEPT !.pc = "reported", !.logged = CallerPrints(hb.result)]
  /\ UNCHANGED notHeartbeat

\* the next tick may come
HeartbeatOver ==
  /\ hb.pc = "reported"
  /\ hb' = NoHeartbeat
  /\ UNCHANGED notHeartbeat

HeartbeatNext ==
  \/ \E caller \in HbCallers : HeartbeatCalled(caller)
  \/ Tier1Nothing
  \/ \E events \in EventLists : Tier1Events(events)
  \/ Tier1Fails
  \/ Tier2Resolves
  \/ Tier2Defers
  \/ Tier3Done
  \/ CallerResumes
  \/ HeartbeatOver

\* ------------------------------------------------------------------------
\* Session history and the CLI's compact command
\* ------------------------------------------------------------------------

\* the summary message; original messages are numbered from 1 in the order
\* they were appended
SummaryMessage == 0

NewSession ==
  [messages |-> <<>>, appended |-> 0, pc |-> "idle", before |-> <<>>,
   outcome |-> "none", printed |-> 0]

\* the last n messages of a history
LastN(messages, n) == SubSeq(messages, Len(messages) - n + 1, Len(messages))

\* a compaction that keeps one message too few
CompactedMutant(messages, n) == <<SummaryMessage>> \o LastN(messages, n - 1)

\* the oldest prefix replaced by one summary message, the most recent n
\* messages kept
Compacted(messages, n) == <<SummaryMessage>> \o LastN(messages, n)

\* a turn completed: a message is appended to the history
AppendMessage ==
  /\ sess.pc = "idle"
  /\ sess.appended < MaxMessages
  /\ sess' = [sess EXCEPT !.messages = Append(@, sess.appended + 1),
                          !.appended = @ + 1]
  /\ UNCHANGED notSession

\* the line `compact`: await session.compact(); the history is past the
\* trailing window and the summary is requested
CompactCalled ==
  /\ sess.pc = "idle"
  /\ Len(sess.messages) > KeepRecent
  /\ sess' = [sess EXCEPT !.pc = "summarizing", !.before = sess.messages,
                          !.outcome = "none"]
  /\ UNCHANGED notSession

\* the summary came back: the history is swapped
SummaryReturns ==
  /\ sess.pc = "summarizing"
  /\ sess' = [sess EXCEPT !.pc = "compacted", !.outcome = "ok",
                          !.messages = Compacted(sess.messages, KeepRecent)]
  /\ UNCHANGED notSession

\* summarization failed: the history is retained
SummaryFails ==
  /\ sess.pc = "summarizing"
  /\ sess' = [sess EXCEPT !.pc = "compacted", !.outcome = "failed"]
  /\ UNCHANGED notSession

\* console.log(`Done. ${session.messages.length} messages remaining.`)
CompactReported ==
  /\ sess.pc = "compacted"
  /\ sess' = [sess EXCEPT !.pc = "idle", !.printed = Len(sess.messages)]
  /\ UNCHANGED notSession

SessionNext ==
  \/ AppendMessage
  \/ CompactCalled
  \/ SummaryReturns
  \/ SummaryFails
  \/ CompactReported

\* ------------------------------------------------------------------------
\* Custom tools (custom-tools.js)
\* ------------------------------------------------------------------------

\* the file names `${safeName}.js` tools are written to
ToolFiles == 1..MaxToolFiles

\* what a tool file holds: a module exporting name and execute, a module
\* whose import throws, or a module without name or execute
ToolKinds == {"good", "broken", "shapeless"}

\* who called loadCustomTools: createCustomTool, listCustomTools or
\* deleteCustomTool
LoadCallers == {"create", "list", "delete"}

NoLoad == [pc |-> "idle", todo |-> <<>>, loaded |-> {}]

NoCreateTool == [pc |-> "idle", file |-> 0, before |-> {}, failed |-> FALSE]

\* readdir: the .js files of the directory, in order
RECURSIVE FilesOf(_, _)
FilesOf(d, f) ==
  IF f > MaxToolFiles THEN <<>>
  ELSE IF d[f] = "absent" THEN FilesOf(d, f + 1)
  ELSE <<f>> \o FilesOf(d, f + 1)

\* the files whose module loads with name and execute
Loadable(d) == {f \in ToolFiles : d[f] = "good"}

\* loadCustomTools is called: ensureToolsDir, then readdir is awaited
LoadBegin(c) == [loads EXCEPT ![c] = [NoLoad EXCEPT !.pc = "readdir"]]

\* createCustomTool after its loadCustomTools: returns {name, path} from the
\* try block, or throws `Tool failed to load (file deleted)` from the catch
\* (created takes the tool unless a deleteCustomTool removed it meanwhile)
CreateEnds(c) ==
  IF c = "create"
  THEN /\ cr' = [cr EXCEPT !.pc = IF cr.failed THEN "threw" ELSE "returned"]
       /\ created' = IF ~cr.failed /\ toolsDir[cr.file] = "good"
                     THEN created \cup {cr.file} ELSE created
  ELSE UNCHANGED <<cr, created>>

\* customTools = loaded; return loaded
LoadAssign(c, loaded) ==
  /\ customTools' = loaded
  /\ loads' = [loads EXCEPT ![c] = NoLoad]
  /\ CreateEnds(c)

\* listCustomTools calls loadCustomTools
ListCustomTools ==
  /\ loads["list"].pc = "idle"
  /\ loads' = LoadBegin("list")
  /\ UNCHANGED <<toolsDir, customTools, cr, created, notTool>>

\* readdir resolved with the files there are now
LoadReaddir(c) ==
  /\ loads[c].pc = "readdir"
  /\ IF FilesOf(toolsDir, 1) = <<>>
     THEN LoadAssign(c, {})
     ELSE /\ loads' = [loads EXCEPT ![c] = [pc |-> "importing",
                                             todo |-> FilesOf(toolsDir, 1),
                                             loaded |-> {}]]
          /\ UNCHANGED <<customTools, cr, created>>
  /\ UNCHANGED <<toolsDir, notTool>>

\* the import of the next file resolved or threw: a module with name and
\* execute is pushed, anything else is logged and skipped; after the last
\* file the registry is replaced
LoadImport(c) ==
  /\ loads[c].pc = "importing"
  /\ LET f == Head(loads[c].todo)
         loaded == IF toolsDir[f] = "good" THEN loads[c].loaded \cup {f}
                   ELSE loads[c].loaded
     IN IF Tail(loads[c].todo) = <<>>
        THEN LoadAssign(c, loaded)
        ELSE /\ loads' = [loads EXCEPT ![c].todo = Tail(@), ![c].loaded = loaded]
             /\ UNCHANGED <<customTools, cr, created>>
  /\ UNCHANGED <<toolsDir, notTool>>

\* createCustomTool(name, ..., code): the file `${safeName}.js` is written,
\* over whatever was there
CreateCustomTool(file, kind) ==
  /\ cr.pc = "idle"
  /\ loads["create"].pc = "idle"
  /\ cr' = [pc |-> "written", file |-> file, before |-> Loadable(toolsDir),
            failed |-> FALSE]
  /\ toolsDir' = [toolsDir EXCEPT ![file] = kind]
  /\ created' = created \ {file}
  /\ UNCHANGED <<customTools, loads, notTool>>

\* the import of the new file: a tool with name and execute leaves the file
\* and reloads; otherwise the file is unlinked and the tools are reloaded
\* before the error is thrown
CreateImported ==
  /\ cr.pc = "written"
  /\ IF toolsDir[cr.file] = "good"
     THEN /\ cr' = [cr EXCEPT !.pc = "reloading"]
          /\ toolsDir' = toolsDir
     ELSE /\ cr' = [cr EXCEPT !.pc = "reloading", !.failed = TRUE]
          /\ toolsDir' = [toolsDir EXCEPT ![cr.file] = "absent"]
  /\ loads' = LoadBegin("create")
  /\ UNCHANGED <<customTools, created, notTool>>

\* the caller has the result or the error of createCustomTool
CreateOver ==
  /\ cr.pc \in {"returned", "threw"}
  /\ cr' = NoCreateTool
  /\ UNCHANGED <<toolsDir, customTools, loads, created, notTool>>

\* deleteCustomTool(name): the file exporting that name is unlinked and the
\* tools are reloaded
DeleteCustomTool(file) ==
  /\ loads["delete"].pc = "idle"
  /\ toolsDir[file] = "good"
  /\ toolsDir' = [toolsDir EXCEPT ![file] = "absent"]
  /\ created' = created \ {file}
  /\ loads' = LoadBegin("delete")
  /\ UNCHANGED <<customTools, cr, notTool>>

ToolNext ==
  \/ ListCustomTools
  \/ \E c \in LoadCallers : LoadReaddir(c)
  \/ \E c \in LoadCallers : LoadImport(c)
  \/ \E file \in ToolFiles, kind \in ToolKinds : CreateCustomTool(file, kind)
  \/ CreateImported
  \/ CreateOver
  \/ \E file \in ToolFiles : DeleteCustomTool(file)

\* ------------------------------------------------------------------------
\* MiniGraph (graph.js)
\* ------------------------------------------------------------------------

NodeIds == 1..MaxNodes

\* attribute objects: a value per key, "absent" for a key the object lacks
AttrKeys == {"type", "name"}

NoAttrs == [k \in AttrKeys |-> "absent"]

AttrPool ==
  {NoAttrs, [NoAttrs EXCEPT !["type"] = "memory"], [NoAttrs EXCEPT !["name"] = "n"]}

\* the type of an edge's attrs; "undefined" when attrs has none
EdgeTypes == {"undefined", "mentions"}

\* new MiniGraph(): _nodes (ids in insertion order and their attrs),
\* _outEdges and _inEdges (a list per node; their keys are set by addNode
\* only, so they are the node ids in the same order)
NewGraph ==
  [nodes |-> <<>>, attrs |-> [id \in NodeIds |-> NoAttrs],
   out |-> [id \in NodeIds |-> <<>>], in |-> [id \in NodeIds |-> <<>>]]

\* this._nodes.has(id)
HasNode(g, id) == \E i \in 1..Len(g.nodes) : g.nodes[i] = id

\* addNode(id, attrs): the attrs are replaced, a new id is appended with
\* empty edge lists, an id that is there keeps its place and its edges
AddNodeTo(g, id, attrs) ==
  [g EXCEPT !.attrs[id] = attrs,
            !.nodes = IF HasNode(g, id) THEN @ ELSE Append(@, id)]

\* { ...existing, ...attrs }
Spread(existing, attrs) ==
  [k \in AttrKeys |-> IF attrs[k] # "absent" THEN attrs[k] ELSE existing[k]]

\* mergeNode(id, attrs)
MergeNodeTo(g, id, attrs) ==
  IF HasNode(g, id)
  THEN [g EXCEPT !.attrs[id] = Spread(@, attrs)]
  ELSE AddNodeTo(g, id, attrs)

\* if (!this._nodes.has(id)) this.addNode(id, {})
Ensure(g, id) == IF HasNode(g, id) THEN g ELSE AddNodeTo(g, id, NoAttrs)

\* out.some(e => e.target === target && e.type === attrs.type)
EdgeExists(g, source, target, type) ==
  \E i \in 1..Len(g.out[source]) :
    g.out[source][i] = [target |-> target, type |-> type]

\* an addEdge without the duplicate check
PushEdgeMutant(g, source, target, type) ==
  [g EXCEPT !.out[source] = Append(@, [target |-> target, type |-> type]),
            !.in[target] = Append(@, [source |-> source, type |-> type])]

\* if (exists) return; out.push(...); this._inEdges.get(target).push(...)
PushEdge(g, source, target, type) ==
  IF EdgeExists(g, source, target, type) THEN g
  ELSE [g EXCEPT !.out[source] = Append(@, [target |-> target, type |-> type]),
                 !.in[target] = Append(@, [source |-> source, type |-> type])]

\* addEdge(source, target, attrs)
AddEdgeTo(g, source, target, type) ==
  PushEdge(Ensure(Ensure(g, source), target), source, target, type)

\* a sequence without the repeats of its elements, first occurrences kept
RECURSIVE Distinct(_)
Distinct(s) ==
  IF s = <<>> THEN <<>>
  ELSE LET rest == Distinct(SelectSeq(Tail(s), LAMBDA x : x # Head(s)))
       IN <<Head(s)>> \o rest

\* a neighbors that follows outgoing edges only
NeighborsMutant(g, id) ==
  Distinct([i \in 1..Len(g.out[id]) |-> g.out[id][i].target])

\* neighbors(id): the targets of the out list, then the sources of the in
\* list, each once
Neighbors(g, id) ==
  Distinct([i \in 1..Len(g.out[id]) |-> g.out[id][i].target]
           \o [i \in 1..Len(g.in[id]) |-> g.in[id][i].source])

\* the while loop of traverse
RECURSIVE TraverseLoop(_, _, _, _, _)
TraverseLoop(g, hops, queue, visited, result) ==
  IF queue = <<>> THEN result
  ELSE LET nodeId == Head(queue).id
           depth == Head(queue).depth
       IN IF nodeId \in visited
          THEN TraverseLoop(g, hops, Tail(queue), visited, result)
          ELSE LET seen == visited \cup {nodeId}
                   fresh == SelectSeq(Neighbors(g, nodeId), LAMBDA n : n \notin seen)
                   more == IF depth < hops
                           THEN [i \in 1..Len(fresh) |->
                                   [id |-> fresh[i], depth |-> depth + 1]]
                           ELSE <<>>
               IN TraverseLoop(g, hops, Tail(queue) \o more, seen,
                    IF HasNode(g, nodeId)
                    THEN Append(result, [id |-> nodeId, depth |-> depth])
                    ELSE result)

\* traverse(id, hops)
TraverseOf(g, id, hops) ==
  TraverseLoop(g, hops, <<[id |-> id, depth |-> 0]>>, {}, <<>>)

\* export(): every node as {id, ...attrs}, every edge of every out list as
\* {source, ...edge}
RECURSIVE ExportEdges(_, _)
ExportEdges(g, ids) ==
  IF ids = <<>> THEN <<>>
  ELSE [i \in 1..Len(g.out[Head(ids)]) |->
          [source |-> Head(ids), target |-> g.out[Head(ids)][i].target,
           type |-> g.out[Head(ids)][i].type]]
       \o ExportEdges(g, Tail(ids))

Export(g) ==
  [nodes |-> [i \in 1..Len(g.nodes) |-> [id |-> g.nodes[i], attrs |-> g.attrs[g.nodes[i]]]],
   edges |-> ExportEdges(g, g.nodes)]

\* an import that adds the edges without their attrs
EdgeAttrsMutant(edge) == "undefined"

\* const { source, target, ...attrs } = edge
EdgeAttrs(edge) == edge.type

RECURSIVE ImportNodes(_, _)
ImportNodes(g, nodes) ==
  IF nodes = <<>> THEN g
  ELSE ImportNodes(AddNodeTo(g, Head(nodes).id, Head(nodes).attrs), Tail(nodes))

RECURSIVE ImportEdges(_, _)
ImportEdges(g, edges) ==
  IF edges = <<>> THEN g
  ELSE ImportEdges(AddEdgeTo(g, Head(edges).source, Head(edges).target,
                             EdgeAttrs(Head(edges))), Tail(edges))

\* MiniGraph.import(json)
Import(json) == ImportEdges(ImportNodes(NewGraph, json.nodes), json.edges)

NoRoundTrip == [done |-> FALSE, got |-> NewGraph]

NoTraverse == [done |-> FALSE, id |-> 0, hops |-> 0, result |-> <<>>]

\* a call that changes the graph: the results taken from the graph before
\* are dropped
GraphChanged(g, op) ==
  /\ graph' = g
  /\ graphOps' = [n |-> graphOps.n + 1, last |-> op]
  /\ roundTrip' = NoRoundTrip
  /\ trav' = NoTraverse
  /\ UNCHANGED notGraph

AddNode(id, attrs) ==
  /\ graphOps.n < MaxGraphOps
  /\ GraphChanged(AddNodeTo(graph, id, attrs), "addNode")

MergeNode(id, attrs) ==
  /\ graphOps.n < MaxGraphOps
  /\ GraphChanged(MergeNodeTo(graph, id, attrs), "mergeNode")

AddEdge(source, target, type) ==
  /\ graphOps.n < MaxGraphOps
  /\ GraphChanged(AddEdgeTo(graph, source, target, type),
                  IF EdgeExists(graph, source, target, type)
                  THEN "duplicate" ELSE "addEdge")

\* MiniGraph.import(graph.export())
ExportImport ==
  /\ ~roundTrip.done
  /\ roundTrip' = [done |-> TRUE, got |-> Import(Export(graph))]
  /\ trav' = NoTraverse
  /\ UNCHANGED <<graph, graphOps, notGraph>>

\* graph.traverse(id, hops)
Traverse(id, hops) ==
  /\ trav' = [done |-> TRUE, id |-> id, hops |-> hops,
              result |-> TraverseOf(graph, id, hops)]
  /\ roundTrip' = NoRoundTrip
  /\ UNCHANGED <<graph, graphOps, notGraph>>

GraphNext ==
  \/ \E id \in NodeIds, attrs \in AttrPool : AddNode(id, attrs)
  \/ \E id \in NodeIds, attrs \in AttrPool : MergeNode(id, attrs)
  \/ \E source \in NodeIds, target \in NodeIds, type \in EdgeTypes :
       AddEdge(source, target, type)
  \/ ExportImport
  \/ \E id \in NodeIds, hops \in 0..MaxHops : Traverse(id, hops)

\* ------------------------------------------------------------------------
\* Telegram sendMessage: chunking
\* ------------------------------------------------------------------------

MAX_MESSAGE_LENGTH == 4096

\* MAX_MESSAGE_LENGTH / 2
HalfLimit == MAX_MESSAGE_LENGTH \div 2

\* the lengths of the texts sent and the indexes a text may have a newline at
TextLengths ==
  {1, HalfLimit, MAX_MESSAGE_LENGTH, MAX_MESSAGE_LENGTH + 1,
   MAX_MESSAGE_LENGTH + HalfLimit, 2 * MAX_MESSAGE_LENGTH,
   2 * MAX_MESSAGE_LENGTH + 1, 3 * MAX_MESSAGE_LENGTH}

NewlineMarks ==
  {0, HalfLimit - 1, HalfLimit, MAX_MESSAGE_LENGTH - 1, MAX_MESSAGE_LENGTH,
   MAX_MESSAGE_LENGTH + 1, MAX_MESSAGE_LENGTH + HalfLimit,
   2 * MAX_MESSAGE_LENGTH - 1, 2 * MAX_MESSAGE_LENGTH}

NoText == [pc |-> "idle", len |-> 0, newlines |-> {}, pos |-> 0, chunks |-> <<>>]

\* the greatest element of a non-empty set of numbers
Greatest(S) == CHOOSE x \in S : \A y \in S : y <= x

\* remaining.lastIndexOf('\n', MAX_MESSAGE_LENGTH), remaining being the text
\* from pos on: the last newline at an index of remaining up to the limit,
\* -1 when there is none
LastNewline(newlines, pos) ==
  LET found == {p \in newlines : pos <= p /\ p <= pos + MAX_MESSAGE_LENGTH}
  IN IF found = {} THEN -1 ELSE Greatest(found) - pos

\* a break wherever the last newline is
BreakAtMutant(newlines, pos) == LastNewline(newlines, pos)

\* if (breakAt < MAX_MESSAGE_LENGTH / 2) breakAt = MAX_MESSAGE_LENGTH
BreakAt(newlines, pos) ==
  IF LastNewline(newlines, pos) < HalfLimit THEN MAX_MESSAGE_LENGTH
  ELSE LastNewline(newlines, pos)

\* sendMessage(token, chatId, text): remaining = text; an empty text leaves
\* the loop at once
SendMessage(len, newlines) ==
  /\ ck.pc = "idle"
  /\ \A p \in newlines : p < len
  /\ ck' = [pc |-> "chunking", len |-> len, newlines |-> newlines, pos |-> 0,
            chunks |-> <<>>]
  /\ UNCHANGED notChunk

\* one turn of the while loop: the rest is pushed whole when it fits,
\* otherwise remaining.slice(0, breakAt) is pushed and remaining becomes
\* remaining.slice(breakAt)
ChunkStep ==
  /\ ck.pc = "chunking"
  /\ IF ck.len - ck.pos <= MAX_MESSAGE_LENGTH
     THEN ck' = [ck EXCEPT !.pc = "done", !.pos = ck.len,
                           !.chunks = Append(@, [from |-> ck.pos, to |-> ck.len])]
     ELSE LET breakAt == BreakAt(ck.newlines, ck.pos)
          IN ck' = [ck EXCEPT !.pos = ck.pos + breakAt,
                              !.chunks = Append(@, [from |-> ck.pos,
                                                    to |-> ck.pos + breakAt])]
  /\ UNCHANGED notChunk

ChunkNext ==
  \/ \E len \in TextLengths, newlines \in SUBSET NewlineMarks : SendMessage(len, newlines)
  \/ ChunkStep

\* ------------------------------------------------------------------------
\* Specifications
\* ------------------------------------------------------------------------

\* the state after construction: no expression under check, an empty
\* crons.json, no tick in flight, no batch
Init ==
  /\ pExpr = TxtEmpty
  /\ pStage = "off"
  /\ pParsed = ParseThrew
  /\ pDesc = <<>>
  /\ pReparsed = ParseThrew
  /\ pDate = NoDate
  /\ pMatch = FALSE
  /\ pRematch = FALSE
  /\ disk = <<>>
  /\ clock = 0
  /\ nextId = 1
  /\ tick = [t \in Ticks |-> IdleTick]
  /\ runs = 0
  /\ calls = 0
  /\ fireLog = {}
  /\ failLog = {}
  /\ lastCall = NoCall
  /\ deleted = {}
  /\ agents = <<>>
  /\ batch = NoBatch
  /\ journal = <<>>
  /\ crFile = Stringify(<<>>)
  /\ crWrite = NoWrite
  /\ crPrior = <<>>
  /\ crFailed = FALSE
  /\ crLoaded = NotLoaded
  /\ crCreate = NoCreate
  /\ activeSessions = {}
  /\ req = [r \in Requests |-> IdleHandler]
  /\ cliSession = 1
  /\ line = [l \in Lines |-> IdleHandler]
  /\ proc = "init"
  /\ gatewayState = NoTimers
  /\ hbIntervals = <<>>
  /\ pending = {}
  /\ inFlight = [kind \in TickKinds |-> 0]
  /\ tickErrors = NoErrors
  /\ bt = NoTask
  /\ tgBot = NotStarted
  /\ tgMsg = NoTgMessage
  /\ sessionMap = {}
  /\ streamed = {}
  /\ refused = {}
  /\ tgPoll = NoPoll
  /\ arrived = 0
  /\ taken = <<>>
  /\ hb = NoHeartbeat
  /\ sess = NewSession
  /\ toolsDir = [f \in ToolFiles |-> "absent"]
  /\ customTools = {}
  /\ loads = [c \in LoadCallers |-> NoLoad]
  /\ cr = NoCreateTool
  /\ created = {}
  /\ graph = NewGraph
  /\ graphOps = [n |-> 0, last |-> "none"]
  /\ roundTrip = NoRoundTrip
  /\ trav = NoTraverse
  /\ ck = NoText

\* the same, with an expression drawn for the parser check
ParseInit ==
  /\ pExpr \in ExprPool
  /\ pStage = "input"
  /\ pParsed = ParseThrew
  /\ pDesc = <<>>
  /\ pReparsed = ParseThrew
  /\ pDate = NoDate
  /\ pMatch = FALSE
  /\ pRematch = FALSE
  /\ disk = <<>>
  /\ clock = 0
  /\ nextId = 1
  /\ tick = [t \in Ticks |-> IdleTick]
  /\ runs = 0
  /\ calls = 0
  /\ fireLog = {}
  /\ failLog = {}
  /\ lastCall = NoCall
  /\ deleted = {}
  /\ agents = <<>>
  /\ batch = NoBatch
  /\ journal = <<>>
  /\ crFile = Stringify(<<>>)
  /\ crWrite = NoWrite
  /\ crPrior = <<>>
  /\ crFailed = FALSE
  /\ crLoaded = NotLoaded
  /\ crCreate = NoCreate
  /\ activeSessions = {}
  /\ req = [r \in Requests |-> IdleHandler]
  /\ cliSession = 1
  /\ line = [l \in Lines |-> IdleHandler]
  /\ proc = "init"
  /\ gatewayState = NoTimers
  /\ hbIntervals = <<>>
  /\ pending = {}
  /\ inFlight = [kind \in TickKinds |-> 0]
  /\ tickErrors = NoErrors
  /\ bt = NoTask
  /\ tgBot = NotStarted
  /\ tgMsg = NoTgMessage
  /\ sessionMap = {}
  /\ streamed = {}
  /\ refused = {}
  /\ tgPoll = NoPoll
  /\ arrived = 0
  /\ taken = <<>>
  /\ hb = NoHeartbeat
  /\ sess = NewSession
  /\ toolsDir = [f \in ToolFiles |-> "absent"]
  /\ customTools = {}
  /\ loads = [c \in LoadCallers |-> NoLoad]
  /\ cr = NoCreateTool
  /\ created = {}
  /\ graph = NewGraph
  /\ graphOps = [n |-> 0, last |-> "none"]
  /\ roundTrip = NoRoundTrip
  /\ trav = NoTraverse
  /\ ck = NoText

\* the cron scheduler under the gateway's timers, ticks overlapping
Next == CronNext

Spec == Init /\ [][Next]_vars

\* the cron scheduler with its ticks run one after another
SeqSpec == Init /\ [][CronNextSeq]_vars

\* the parser, describeCron and matchesCron applied to drawn inputs
ParseSpec == ParseInit /\ [][ParseNext]_vars

\* one spawnAgents batch
SpawnSpec == Init /\ [][SpawnNext]_vars

\* saves and loads of crons.json, a save possibly failing part-way
FileSpec == Init /\ [][FileNext]_vars

\* the panel's chat requests and the CLI's lines
ChatSpec == Init /\ [][ChatNext]_vars

\* one runBrowserTask
BrowserSpec == Init /\ [][BrowserNext]_vars

\* one CLI session: turns and compact commands
SessionSpec == Init /\ [][SessionNext]_vars

\* heartbeat runs, one at a time
HeartbeatSpec == Init /\ [][HeartbeatNext]_vars

\* the Telegram bot handling its updates one at a time
TelegramSpec == Init /\ [][TelegramNext]_vars

\* custom tools created, listed and deleted while loads are in flight
ToolSpec == Init /\ [][ToolNext]_vars

\* the chunking loop of one sendMessage; the loop runs on once entered
ChunkSpec == Init /\ [][ChunkNext]_vars /\ WF_vars(ChunkStep)

\* one MiniGraph built by addNode, mergeNode and addEdge calls, exported and
\* imported, and traversed
GraphSpec == Init /\ [][GraphNext]_vars

\* the gateway; an armed interval timer keeps firing while the process is up
GatewaySpec ==
  /\ Init
  /\ [][GatewayNext]_vars
  /\ \A kind \in TickKinds : WF_vars(IntervalFires(kind))
  /\ \A kind \in TickKinds : WF_vars(TickReturns(kind) \/ TickThrows(kind))

\* ------------------------------------------------------------------------
\* Properties
\* ------------------------------------------------------------------------

\* every spawnAgent promise of the batch has settled
AllSettled == \A i \in 1..Len(agents) : agents[i].stage \in {"fulfilled", "rejected"}

\* the per-task outcomes the caller of spawnAgents holds: the array of values
\* when the batch promise is fulfilled, none when it is pending or rejected
\* (a rejection carries one reason only)
Outcomes ==
  IF batch.state = "fulfilled" THEN [i \in 1..batch.n |-> "ok"] ELSE <<>>

\* C1: spawnAgents never rejects as a whole batch; once every run has
\* settled the caller holds one outcome per task, a success for each run that
\* returned and a failure for each run that threw.
C1_EachTaskSettlesOnItsOwn ==
  /\ batch.state # "rejected"
  /\ (batch.state # "none" /\ AllSettled) =>
       /\ Len(Outcomes) = batch.n
       /\ \A i \in 1..batch.n :
            Outcomes[i] = (IF agents[i].stage = "fulfilled" THEN "ok" ELSE "error")

Due(loaded, k, m) ==
  /\ loaded[k].enabled
  /\ validateCron(loaded[k].schedule)
  /\ matchesCron(parseCronExpression(loaded[k].schedule), DateOf(m))

FieldInRange(f, lo, hi) == f.kind = "any" \/ (f.kind = "set" /\ f.vals \subseteq lo..hi)

\* a parsed schedule is five field-sets with every value legal for its field
LegalSchedule(p) ==
  /\ p.ok
  /\ FieldInRange(p.minute, MinuteMin, MinuteMax)
  /\ FieldInRange(p.hour, HourMin, HourMax)
  /\ FieldInRange(p.dayOfMonth, DomMin, DomMax)
  /\ FieldInRange(p.month, MonthMin, MonthMax)
  /\ FieldInRange(p.dayOfWeek, DowMin, DowMax)

\* C3: every job of the persisted list has a schedule that parses into five
\* field-sets whose values all lie in the legal range of their field.
C3_StoredSchedulesLegal ==
  \A k \in 1..Len(disk) : LegalSchedule(parseCronExpression(disk[k].schedule))

\* C4: a createCron, or an updateCron of a stored job, whose schedule fails
\* validateCron throws and leaves the persisted list as it was.
C4_InvalidScheduleRejected ==
  ( /\ lastCall.op \in {"create", "update"}
    /\ lastCall.schedGiven
    /\ ~lastCall.valid
    /\ lastCall.outcome # "null" )
  => (lastCall.outcome = "threw" /\ ~lastCall.changed)

\* a field is match-any or contains v
Admits(f, v) == f.kind = "any" \/ v \in f.vals

\* C5: matchesCron is true exactly when each of the five fields is match-any
\* or contains the corresponding component of the time; day-of-month and
\* day-of-week are combined by AND.
C5_MatchIsConjunction ==
  pStage = "matched" =>
    ( pMatch <=>
        /\ Admits(pParsed.minute, pDate.minutes)
        /\ Admits(pParsed.hour, pDate.hours)
        /\ Admits(pParsed.dayOfMonth, pDate.date)
        /\ Admits(pParsed.month, pDate.month0 + 1)
        /\ Admits(pParsed.dayOfWeek, pDate.day) )

\* C5 witness: day-of-month and day-of-week are both sets, the date is in
\* the first and the weekday is not in the second, and there is no match.
C5_DomMatchesDowDoesNot ==
  /\ pStage = "matched"
  /\ pParsed.dayOfMonth.kind = "set"
  /\ pParsed.dayOfWeek.kind = "set"
  /\ pDate.date \in pParsed.dayOfMonth.vals
  /\ pDate.day \notin pParsed.dayOfWeek.vals
  /\ Admits(pParsed.minute, pDate.minutes)
  /\ Admits(pParsed.hour, pDate.hours)
  /\ Admits(pParsed.month, pDate.month0 + 1)
  /\ ~pMatch

StepExprOf == [n \in 1..MaxStep |-> StepExpr(n)]

\* C6: `*/N * * * *` parses to the minutes m of 0..59 with m mod N = 0 and
\* matches a time exactly when its minute mod N is 0, whatever the hour,
\* day of month, month and day of week.
C6_StepMinutes ==
  \A n \in 1..MaxStep :
    (pStage = "matched" /\ pExpr = StepExprOf[n]) =>
      /\ pParsed.minute = FieldSet({m \in MinuteMin..MinuteMax : m % n = 0})
      /\ pMatch <=> (pDate.minutes % n = 0)

\* C6 witness: `*/30 * * * *` matched at minute 30 of hour 9.
C6_HalfHourMatch ==
  /\ pStage = "matched"
  /\ pExpr = StepExprOf[30]
  /\ pDate.minutes = 30
  /\ pDate.hours = 9
  /\ pMatch

\* C7 as stated: for every valid expression, the description parses again
\* and matches the same times.
C7_DescribeRoundTrips ==
  pStage = "matched" => (pReparsed.ok /\ pRematch = pMatch)

\* the shape describeCron has no words for: minute or hour is `*`, neither
\* is a step, and day of month and day of week are `*`
PlainFields(parts) ==
  /\ parts[1] = Star \/ parts[2] = Star
  /\ ~StartsWith(parts[1], StarSlash)
  /\ ~StartsWith(parts[2], StarSlash)
  /\ parts[3] = Star
  /\ parts[5] = Star

PlainShape(expr) == PlainFields(SplitWs(Trim(expr)))

\* C7 amended: a valid expression of the plain shape is described by itself,
\* so the description parses to the same schedule and matches the same
\* times; the description of every other valid expression is prose that
\* parseCronExpression rejects.
C7_RoundTripOnlyWhenUnchanged ==
  pStage = "matched" =>
    IF PlainShape(pExpr)
    THEN pDesc = pExpr /\ pReparsed = pParsed /\ pRematch = pMatch
    ELSE pDesc # pExpr /\ ~pReparsed.ok

\* C7 witness: an expression of the plain shape with a minute set, matched
\* by both the schedule and its re-parsed description.
C7_PlainRoundTrip ==
  /\ pStage = "matched"
  /\ PlainShape(pExpr)
  /\ pParsed.minute.kind = "set"
  /\ pMatch
  /\ pRematch

\* the persisted list holds job id with lastRun set to the instant m
SavedWithLastRun(crons, id, m) ==
  \E j \in 1..Len(crons) : crons[j].id = id /\ crons[j].lastRun = RanAt(m)

\* the step in which tick t's saveCrons completes and runCronTick returns
Returns(t) == tick[t].pc = "saving" /\ tick'[t].pc = "done"

\* the executions that begin in this step
Begun == fireLog' \ fireLog

\* C8: when runCronTick returns, every job it fired has lastRun equal to the
\* tick's timestamp in the persisted list, whether it succeeded or threw; so
\* no tick begins to execute a job whose execution by another tick has
\* already thrown in the same minute.
C8_LastRunSetOnReturn ==
  [][ /\ \A t \in Ticks :
           Returns(t) =>
             \A k \in 1..Len(tick[t].results) :
               SavedWithLastRun(disk', tick[t].results[k].id, tick[t].now)
      /\ \A r \in Begun, f \in failLog :
           (f.id = r.id /\ f.at = r.at) => f.run = r.run ]_vars

\* the ids of the jobs among the first n of a loaded list that the tick at
\* minute m has to execute
Eligible(loaded, n, m) ==
  {loaded[k].id : k \in {k \in 1..n :
     Due(loaded, k, m) /\ ~(loaded[k].lastRun.ran /\ loaded[k].lastRun.at = m)}}

ResultIds(rec) == {rec.results[k].id : k \in 1..Len(rec.results)}

\* C9: the jobs a tick executes are exactly the enabled jobs of the list it
\* loaded whose schedule parses and matches and whose lastRun is not in the
\* tick's minute, and each of them is recorded with the tick's timestamp;
\* neither a schedule that fails to parse nor an execution that throws keeps
\* another such job from being executed.
C9_ExecutesExactlyTheDue ==
  \A t \in Ticks :
    /\ tick[t].pc \in {"saving", "done"} =>
         ResultIds(tick[t]) = Eligible(tick[t].loaded, Len(tick[t].loaded), tick[t].now)
    /\ tick[t].pc = "exec" =>
         ResultIds(tick[t]) \cup {tick[t].crons[tick[t].i].id}
           = Eligible(tick[t].loaded, tick[t].i, tick[t].now)
    /\ tick[t].pc \in {"exec", "saving"} =>
         \A id \in ResultIds(tick[t]) : SavedWithLastRun(tick[t].crons, id, tick[t].now)

\* C9 witness: the first job of the loaded list has a schedule that does
\* not parse, and the tick has executed the job after it.
C9_SiblingOfUnparsableRuns ==
  \E t \in Ticks :
    /\ tick[t].pc = "saving"
    /\ Len(tick[t].loaded) = 2
    /\ ~validateCron(tick[t].loaded[1].schedule)
    /\ tick[t].loaded[2].id \in ResultIds(tick[t])

\* C10: a job is executed at most once per wall-clock minute, also when
\* runCronTick invocations overlap.
C10_OncePerMinuteOverlapping ==
  \A id \in JobIds, m \in 0..MaxClock :
    Cardinality({r \in fireLog : r.id = id /\ r.at = m}) <= 1

JobsOnDisk == {disk[k].id : k \in 1..Len(disk)}

\* C11: a job leaves the persisted list only through deleteCron and a
\* deleted job never comes back: whenever no runCronTick is in flight, the
\* list holds exactly the jobs that were created and not deleted.
C11_ListIsCreatedMinusDeleted ==
  NoTickInFlight => JobsOnDisk = (1..(nextId - 1)) \ deleted

\* the job of a list with this id
JobOf(crons, id) == crons[CHOOSE k \in 1..Len(crons) : crons[k].id = id]

\* C12: the write-back of a tick changes only the run bookkeeping of the
\* jobs it fired: in the step in which a tick saves, no job that is in the
\* persisted list before and after has its schedule or its enabled flag
\* changed, so an update that completed while the tick was in flight stays
\* in effect.
C12_TickSaveKeepsUpdates ==
  [][\A t \in Ticks :
       Returns(t) =>
         \A k \in 1..Len(disk') :
           disk'[k].id \in JobsOnDisk =>
             /\ disk'[k].schedule = JobOf(disk, disk'[k].id).schedule
             /\ disk'[k].enabled = JobOf(disk, disk'[k].id).enabled]_vars

\* C17: updateCron, enableCron, disableCron and deleteCron called with an id
\* that matches no stored job throw a NotFound error to the caller instead
\* of returning a value.
C17_UnknownIdThrows ==
  lastCall.outcome \notin {"null", "false"}

\* the spawnAgent runs that appended a journal entry
Journalled == {journal[k] : k \in 1..Len(journal)}

\* C18: spawnAgent writes nothing on its own: a run appends a journal entry
\* only when its options carry journal: true together with a journalSection,
\* only after its model call has returned, and at most once; every other
\* run, and every run that threw, has written nothing.
C18_JournalOnlyOnRequest ==
  /\ \A i \in Journalled :
       /\ agents[i].opts.journal = "true"
       /\ agents[i].opts.section
       /\ agents[i].stage = "fulfilled"
  /\ \A k, l \in 1..Len(journal) : journal[k] = journal[l] => k = l

\* C18 witness: one run has returned after appending its entry, another has
\* returned with journal: true but no journalSection and appended nothing.
C18_OneLoggedOneSilent ==
  \E i, j \in 1..Len(agents) :
    /\ i \in Journalled
    /\ agents[j].stage = "fulfilled"
    /\ agents[j].opts.journal = "true"
    /\ ~agents[j].opts.section
    /\ j \notin Journalled

\* C13: a save that fails or is interrupted part-way leaves the prior list
\* on disk: the loadCrons that follows it returns the complete list of the
\* last save that completed.
C13_FailedSaveKeepsPrior ==
  (crFailed /\ crLoaded.done) => crLoaded.list = crPrior

\* the sendStream turns in flight on session s in the panel, and in the CLI
PanelTurns(s) == {r \in Requests : req[r].pc = "stream" /\ req[r].sid = s}

CliTurns(s) == {l \in Lines : line[l].pc = "stream" /\ line[l].sid = s}

\* C14: on every session at most one sendStream turn is in flight at any
\* time, in the panel and in the CLI.
C14_OneTurnPerSession ==
  \A s \in SessionIds :
    Cardinality(PanelTurns(s)) <= 1 /\ Cardinality(CliTurns(s)) <= 1

\* C15: an error thrown by runHeartbeat or runCronTick inside a timer tick is
\* caught at the tick: the process does not crash, both interval timers stay
\* armed while the process is up, and after a caught error a later tick
\* starts unless the gateway is shut down first.
C15_TickErrorsAreContained ==
  /\ [](proc # "crashed")
  /\ [](proc = "up" => (gatewayState.heartbeatTimer /\ gatewayState.cronTimer))
  /\ [](tickErrors.caught => <>(tickErrors.later \/ proc = "exited"))

\* C15 witness: a tick is in flight that started after the error of an
\* earlier tick was caught, the process up and both timers armed.
C15_TickAfterCaughtError ==
  /\ proc = "up"
  /\ tickErrors.caught
  /\ tickErrors.later
  /\ \E kind \in TickKinds : inFlight[kind] > 0
  /\ gatewayState.heartbeatTimer
  /\ gatewayState.cronTimer

\* C16: the process exits on SIGTERM/SIGINT only after every heartbeat run
\* and cron tick that was in flight has finished.
C16_ExitWaitsForInFlight ==
  proc = "exited" => \A kind \in TickKinds : inFlight[kind] = 0

\* C19: runBrowserTask requests at most MAX_STEPS completions, and when no
\* model or browser call has thrown it ends with the done result, the
\* plain-text reply or the step-limit message, whatever the model answered.
C19_StepCeilingAndResult ==
  /\ bt.modelCalls <= MAX_STEPS
  /\ (bt.pc = "ended" /\ bt.cause \notin {"model", "browser"}) =>
       bt.outcome \in {"done", "text", "limit"}

C21_CallsInOrderResultsPaired ==
  /\ Len(bt.recorded) <= Len(bt.reply)
  /\ bt.recorded = SubSeq(bt.reply, 1, Len(bt.recorded))
  /\ bt.pc \in {"exec", "record", "snap"} =>
       /\ bt.calls # <<>>
       /\ Len(bt.recorded) < Len(bt.reply)
       /\ Head(bt.calls) = bt.reply[Len(bt.recorded) + 1]
  /\ bt.tail # <<>> =>
       /\ Len(bt.tail) = 2
       /\ bt.tail[1].role = "assistant"
       /\ bt.tail[2].role = "tool"
       /\ bt.tail[2].id = bt.tail[1].id
       /\ bt.tail[2].call = bt.tail[1].call

\* C21 witness: a completion requested two different calls, the first has
\* been recorded with its tool message and the second is being executed.
C21_SecondCallAfterFirstRecorded ==
  /\ Len(bt.reply) = 2
  /\ bt.reply[1] # bt.reply[2]
  /\ bt.recorded = <<bt.reply[1]>>
  /\ bt.tail # <<>>
  /\ bt.tail[1].call = bt.reply[1]
  /\ bt.tail[2].role = "tool"
  /\ bt.pc = "exec"

\* C22: for every configuration of allowedChatIds, the empty list included,
\* a chat whose id is not in the list gets no session and no sendStream call.
C22_OnlyWhitelistedChats ==
  \A chatId \in ChatIds \ tgBot.allowed :
    chatId \notin sessionMap /\ chatId \notin streamed

\* the ticks that have loaded their list and not yet returned
Loaded(t) == tick[t].pc \in {"exec", "saving", "done"}

\* C23: runCronTick never executes a job that is disabled in the list the
\* tick loaded, whatever its schedule and lastRun: the job a tick is
\* executing is enabled in that list, and a job disabled in it has, in the
\* list the tick writes back, the lastRun, runCount and lastResult it was
\* loaded with, and no entry in the tick's results.
C23_DisabledJobsNeverRun ==
  \A t \in Ticks :
    Loaded(t) =>
      /\ Len(tick[t].crons) = Len(tick[t].loaded)
      /\ tick[t].pc = "exec" => tick[t].loaded[tick[t].i].enabled
      /\ \A k \in 1..Len(tick[t].loaded) :
           ~tick[t].loaded[k].enabled =>
             /\ tick[t].crons[k].lastRun = tick[t].loaded[k].lastRun
             /\ tick[t].crons[k].runCount = tick[t].loaded[k].runCount
             /\ tick[t].crons[k].lastResult = tick[t].loaded[k].lastResult
             /\ \A r \in 1..Len(tick[t].results) :
                  tick[t].results[r].id # tick[t].loaded[k].id

\* C23 witness: a tick has gone through its whole list and executed a job,
\* and the list held a disabled job whose schedule matches the tick's minute
\* and which had never run.
C23_DueButDisabledSkipped ==
  \E t \in Ticks :
    /\ tick[t].pc = "saving"
    /\ \E k \in 1..Len(tick[t].loaded) :
         /\ ~tick[t].loaded[k].enabled
         /\ ~tick[t].loaded[k].lastRun.ran
         /\ tick[t].loaded[k].schedule = TxtEveryMinute
         /\ tick[t].crons[k] = tick[t].loaded[k]

\* a step that is an updateCron call (enableCron and disableCron included)
UpdateStep == calls' = calls + 1 /\ lastCall'.op = "update"

\* C24: whatever keys the updates object carries, an updateCron call leaves
\* the list as long as it was, leaves the id, lastRun, runCount and
\* lastResult of every job as they were, and changes at most one job.
C24_UpdateTouchesOnlyAllowedKeys ==
  [][UpdateStep =>
       /\ Len(disk') = Len(disk)
       /\ \A k \in 1..Len(disk) :
            /\ disk'[k].id = disk[k].id
            /\ disk'[k].lastRun = disk[k].lastRun
            /\ disk'[k].runCount = disk[k].runCount
            /\ disk'[k].lastResult = disk[k].lastResult
       /\ \A k, l \in 1..Len(disk) :
            (disk'[k] # disk[k] /\ disk'[l] # disk[l]) => k = l]_vars

\* C24 witness: an updateCron call whose updates carried keys outside the
\* allowed list went through and changed the file, in which every job has
\* run.
C24_UpdateWithOtherKeysApplied ==
  /\ lastCall.op = "update"
  /\ lastCall.others
  /\ lastCall.outcome = "ok"
  /\ lastCall.changed
  /\ Len(disk) = MaxJobs
  /\ \A k \in 1..Len(disk) : disk[k].lastRun.ran /\ disk[k].lastResult.set

\* C25: when Tier 1 classified the tick as `nothing to do`, the run starts no
\* Tier 2 and no Tier 3 run and writes no journal entry, it reports zero
\* events, and the caller prints nothing.
C25_NothingToDoIsSilent ==
  hb.verdict = "nothing" =>
    /\ hb.pc \in {"returned", "reported"}
    /\ hb.tier2 = 0
    /\ hb.tier3 = 0
    /\ hb.journal = 0
    /\ hb.result = 0
    /\ ~hb.logged

\* C25 witness: Tier 1 said `nothing to do` and the caller has resumed after
\* the run.
C25_SilentTickReported ==
  /\ hb.verdict = "nothing"
  /\ hb.pc = "reported"
  /\ hb.caller = "gateway"

C27_LastResultIsPreview ==
  /\ \A k \in 1..Len(disk) : disk[k].lastResult.len <= PreviewMax
  /\ \A t \in Ticks : \A k \in 1..Len(tick[t].crons) :
       tick[t].crons[k].lastResult.len <= PreviewMax

\* C28: on every way out of runBrowserTask once the browser object exists
\* (done, a plain-text reply, the step limit, an exception from any step),
\* browser.close() has been called when the function has returned or
\* rethrown.
C28_BrowserClosedOnEveryExit ==
  bt.pc = "ended" =>
    /\ bt.closed
    /\ bt.outcome \in {"done", "text", "limit", "threw"}

\* C28 witness: a step threw after the model had been asked, and the task
\* has ended by rethrowing with the browser closed.
C28_ClosedAfterThrow ==
  /\ bt.pc = "ended"
  /\ bt.outcome = "threw"
  /\ bt.modelCalls > 0
  /\ bt.closed

\* the executions of job `id` that have begun and did not throw
Succeeded(id) == {f \in fireLog \ failLog : f.id = id}

\* C29: for any interleaving of runCronTick invocations, a job's persisted
\* runCount never decreases, and once every tick has returned it equals the
\* number of the job's executions that completed successfully.
C29_RunCountCountsSuccesses ==
  /\ [](NoTickInFlight =>
          \A k \in 1..Len(disk) :
            disk[k].runCount = Cardinality(Succeeded(disk[k].id)))
  /\ [][\A k \in 1..Len(disk), l \in 1..Len(disk') :
          disk'[l].id = disk[k].id => disk'[l].runCount >= disk[k].runCount]_vars

\* C30: createCron with a valid schedule appends exactly one new job and
\* never removes or alters a job persisted before, for every outcome of its
\* read of the store: when its save has completed, the file holds the list
\* of the last completed save followed by the new job.
C30_CreateOnlyAppends ==
  crCreate.stage = "done" => crPrior = Append(crCreate.before, crCreate.job)

\* C31: when every task of spawnAgents succeeds, the returned array is as
\* long as the input and its i-th element is the result of the i-th task,
\* in whatever order the runs completed.
C31_ResultsInTaskOrder ==
  batch.state = "fulfilled" =>
    /\ Len(batch.values) = batch.n
    /\ \A i \in 1..batch.n : batch.values[i] = i

\* C31 witness: a batch was fulfilled whose runs did not complete in task
\* order.
C31_CompletedOutOfOrder ==
  /\ batch.state = "fulfilled"
  /\ batch.n >= 2
  /\ Len(batch.order) = batch.n
  /\ \E k \in 1..(batch.n - 1) : batch.order[k] > batch.order[k + 1]

\* C32: the Telegram channel handles its updates one at a time: at most one
\* handleMessage is in flight, the loop takes no further update while one
\* is, and so at most one sendStream turn started by a Telegram message runs.
C32_OneTelegramHandlerAtATime ==
  /\ tgPoll.active <= 1
  /\ tgPoll.active = 1 <=> tgMsg.pc # "idle"
  /\ tgMsg.pc # "idle" => tgPoll.pc = "handling"

\* C32 witness: a handler is streaming a turn while a further update of the
\* same batch waits in the loop.
C32_NextUpdateWaits ==
  /\ tgMsg.pc = "streaming"
  /\ tgPoll.pc = "handling"
  /\ tgPoll.batch # <<>>

\* C33: the poll loop takes up every update at most once and skips none,
\* also after a handler failed: the updates taken are the stored ones in
\* order without gap or repeat, the offset is one more than the last update
\* taken (0 before the first), and it never decreases.
C33_EachUpdateOnceOffsetMonotone ==
  /\ [](/\ taken = Ids(1, Len(taken))
        /\ tgPoll.offset = (IF taken = <<>> THEN 0 ELSE taken[Len(taken)] + 1))
  /\ [][tgPoll'.offset >= tgPoll.offset]_vars

\* C33 witness: the handler of update 1 failed while update 2 was in the same
\* batch, and update 2 was taken up after the back-off.
C33_TakenAfterFailure ==
  /\ 1 \in tgPoll.threw
  /\ taken = <<1, 2>>
  /\ tgPoll.offset = 3

\* C34: a createCustomTool that threw has left the tool set as it was: the
\* file of the failed tool is gone, and every tool that was loadable when the
\* call began is still on disk and in the registry.
C34_FailedCreateLeavesTools ==
  cr.pc = "threw" =>
    /\ toolsDir[cr.file] = "absent"
    /\ \A f \in cr.before : toolsDir[f] = "good" /\ f \in customTools

\* C35: a tool that createCustomTool returned stays in the registry until
\* deleteCustomTool removes it, whatever loads finish later.
C35_CreatedToolStaysRegistered == created \subseteq customTools

\* the edges of the out lists, as (source, target, type)
OutEdgeSet(g) ==
  UNION {{[source |-> s, target |-> g.out[s][i].target, type |-> g.out[s][i].type] :
            i \in 1..Len(g.out[s])} : s \in NodeIds}

\* the edges of the in lists, as (source, target, type)
InEdgeSet(g) ==
  UNION {{[source |-> g.in[t][i].source, target |-> t, type |-> g.in[t][i].type] :
            i \in 1..Len(g.in[t])} : t \in NodeIds}

\* no entry twice in a list
NoRepeat(s) == \A i, j \in 1..Len(s) : s[i] = s[j] => i = j

NodeSet(g) == {id \in NodeIds : HasNode(g, id)}

RECURSIVE Within(_, _, _)
Within(g, id, k) ==
  IF ~HasNode(g, id) THEN {}
  ELSE IF k = 0 THEN {id}
  ELSE LET near == Within(g, id, k - 1)
       IN near \cup {n \in NodeSet(g) :
                       \E m \in near, e \in OutEdgeSet(g) :
                         \/ e.source = m /\ e.target = n
                         \/ e.source = n /\ e.target = m}

\* the undirected distance of a node within MaxHops of id
Distance(g, id, n) == CHOOSE k \in 0..MaxHops :
  n \in Within(g, id, k) /\ \A j \in 0..(k - 1) : n \notin Within(g, id, j)

\* C38: traverse(id, hops) returns exactly the nodes within undirected
\* distance hops of id, each once, with depth equal to its distance and the
\* start node first at depth 0, also in a graph with cycles.
C38_TraverseIsBoundedBfs ==
  trav.done =>
    LET r == trav.result
    IN /\ {r[i].id : i \in 1..Len(r)} = Within(graph, trav.id, trav.hops)
       /\ \A i, j \in 1..Len(r) : r[i].id = r[j].id => i = j
       /\ \A i \in 1..Len(r) : r[i].depth = Distance(graph, trav.id, r[i].id)
       /\ HasNode(graph, trav.id) => r[1] = [id |-> trav.id, depth |-> 0]

\* C38 witness: a traverse of two hops around a cycle of three nodes.
C38_TraversedCycle ==
  /\ trav.done
  /\ trav.hops = 2
  /\ Len(trav.result) = 3
  /\ \A n \in NodeIds : Len(graph.out[n]) = 1 /\ Len(graph.in[n]) = 1
  /\ \A n \in NodeIds : graph.out[n][1].target # n

\* C39: while the gateway is running exactly one heartbeat interval timer is
\* armed and its period is gatewayState.heartbeatIntervalMs, after
\* startGateway and after any reloadHeartbeatInterval calls.
C39_OneHeartbeatTimer ==
  (proc = "up" /\ gatewayState.running) =>
    hbIntervals = <<gatewayState.heartbeatIntervalMs>>

\* C39 witness: the gateway runs with the one-minute period only a reload
\* sets.
C39_Reloaded ==
  /\ proc = "up"
  /\ gatewayState.running
  /\ gatewayState.heartbeatIntervalMs = MsOf(1)
  /\ hbIntervals = <<MsOf(1)>>

\* the chunks pushed so far are the text up to pos, cut in pieces that are
\* not empty and not longer than the limit
ChunksSoFarOk ==
  /\ \A i \in 1..Len(ck.chunks) :
       /\ ck.chunks[i].from < ck.chunks[i].to
       /\ ck.chunks[i].to - ck.chunks[i].from <= MAX_MESSAGE_LENGTH
       /\ ck.chunks[i].from = (IF i = 1 THEN 0 ELSE ck.chunks[i - 1].to)
  /\ ck.chunks # <<>> => ck.chunks[Len(ck.chunks)].to = ck.pos
  /\ ck.pc = "done" => ck.pos = ck.len

\* C40: the chunking loop of sendMessage ends for every non-empty text; no
\* chunk is empty or longer than MAX_MESSAGE_LENGTH, and the chunks in order
\* are the text, piece after piece, to its end.
C40_ChunksCoverText ==
  /\ []ChunksSoFarOk
  /\ (ck.pc = "chunking") ~> (ck.pc = "done")

\* C40 witness: a text was sent in three chunks, one cut at a newline short
\* of the limit and one cut at the limit.
C40_CutAtNewlineAndAtLimit ==
  /\ ck.pc = "done"
  /\ Len(ck.chunks) = 3
  /\ \E i \in 1..2 : ck.chunks[i].to - ck.chunks[i].from < MAX_MESSAGE_LENGTH
  /\ \E i \in 1..2 : ck.chunks[i].to - ck.chunks[i].from = MAX_MESSAGE_LENGTH

====
